---- MODULE Spec2Model ----
(***************************************************************************)
(* Pointer CLI: the conversational tool-orchestration engine.              *)
(*                                                                         *)
(*   pointer_cli/chat.py          ChatInterface (model calls, tool parser) *)
(*   pointer_cli/core.py          PointerCLI (chat loop, one user turn)    *)
(*   pointer_cli/tools.py         ToolManager (registry and dispatch)      *)
(*   pointer_cli/chat_manager.py  ChatManager (session store)              *)
(*                                                                         *)
(*   pointer_cli/editor.py        CodeEditor                               *)
(*   pointer_cli/codebase_context.py  CodebaseContext (context cache)      *)
(*   App/backend/tools_handlers.py    resolve_path                         *)
(*                                                                         *)
(* The specifications share the variables below:                           *)
(*   SpecParse    parse_tools applied to bounded response texts            *)
(*   SpecSplit    _split_ai_response applied to bounded texts              *)
(*   SpecStore    the ChatManager operations                               *)
(*   Spec         the chat loop: user turns, mode toggle                   *)
(*   SpecPath     resolve_path applied to bounded paths                    *)
(*   SpecFs       the file tools of ToolManager                            *)
(*   SpecEditor   the CodeEditor operations                                *)
(*   SpecContext  the CodebaseContext operations over a changing tree      *)
(***************************************************************************)
EXTENDS Integers, Sequences, FiniteSets, TLC

VARIABLES
    \* ---- parse_tools (chat.py) ----
    response,        \* the text handed to parse_tools: a sequence of lines
    parsed,          \* whether parse_tools has returned, and the list it returned
    think_text,      \* the text handed to _split_ai_response: a sequence of pieces
    split,           \* whether _split_ai_response has returned, and its two segments
    \* ---- ChatManager (chat_manager.py) ----
    current_chat,    \* self.current_chat: None or a ChatSession
    chats_dir,       \* the records under chats_dir: chat id -> chat_data
    clock,           \* datetime.now(), in seconds
    saved,           \* history: chat id -> the session as it was when last saved
    last_load,       \* history: the id and the result of the load_chat just made
    last_delete,     \* history: the delete_chat just made, and what it found
    ops,             \* history: the number of store operations made
    \* ---- PointerCLI and ChatInterface (core.py, chat.py) ----
    running,              \* self.running
    auto_run_mode,        \* config.mode.auto_run_mode
    pc,                   \* where the chat loop stands
    pass,                 \* 0 outside a turn, 1 first exchange, 2 follow-up exchange
    conversation_history, \* ChatInterface.conversation_history
    request_data,         \* the request body of the model call in flight
    stream,               \* the frames the endpoint has still to send
    full_response,        \* _make_streaming_api_call_with_tokens: full_response
    token_count,          \* _make_streaming_api_call_with_tokens: token_count
    ai_response,          \* _process_user_message: ai_response, tokens_used
    followup_response,    \* _process_user_message: followup_response, followup_tokens
    tools_to_execute,     \* _process_user_message: tools_to_execute
    followup_tools,       \* _process_user_message: followup_tools
    tool_index,           \* the position of the for loop over the batch
    executed_tools,       \* _execute_tools_and_collect_results: executed_tools
    turn,                 \* history: what the current turn has done so far
    turns,                \* history: the number of turns started
    \* ---- resolve_path (App/backend/tools_handlers.py) ----
    relative_path,   \* the argument of resolve_path
    resolved,        \* whether resolve_path has finished, and how
    \* ---- ToolManager file tools (tools.py, utils.py) ----
    files,           \* the filesystem: path -> what is there
    show_diffs,      \* config.ui.show_diffs
    last_tool,       \* history: the tool call just made, its report, the files before it
    fs_ops,          \* history: the number of tool calls made
    \* ---- CodeEditor (editor.py) ----
    editor_content,  \* self.current_content: not loaded, or the lines of the content
    editor_history,  \* self.history: the entries old_content / new_content
    trail,           \* history: the content before each successful edit not yet undone
    last_op,         \* history: the editor operation just made
    ed_ops,          \* history: the number of editor operations made
    \* ---- CodebaseContext (codebase_context.py, utils.py) ----
    tree,                 \* the files under the working directory: path -> what is there
    project_root,         \* self.project_root: None or the directory holding .git
    include_context,      \* config.codebase.include_context
    auto_refresh_context, \* config.codebase.auto_refresh_context
    context_file_types,   \* config.codebase.context_file_types
    context_cache,        \* self.context_cache: the CodebaseFile entries, keyed by relative path
    last_refresh,         \* self.last_refresh
    time,                 \* time.time(), in seconds
    fresh,                \* history: no file has changed since the cache was last rebuilt
    last_ctx,             \* history: the context operation just made
    ctx_ops,              \* history: the number of steps made
    \* ---- CodebaseContext._get_key_files (codebase_context.py) ----
    cache_values,    \* list(self.context_cache.values()), in the cache's order
    rank_time,       \* time.time() when the files are ranked
    key_files        \* whether _get_key_files has returned, and the list it returned

parseVars == <<response, parsed, think_text, split>>
storeVars == <<current_chat, chats_dir, clock, saved, last_load, last_delete, ops>>
callVars == <<request_data, stream, full_response, token_count>>
turnVars == <<running, auto_run_mode, pc, pass, conversation_history, callVars,
              ai_response, followup_response, tools_to_execute, followup_tools,
              tool_index, executed_tools, turn, turns>>
pathVars == <<relative_path, resolved>>
fsVars == <<files, show_diffs, last_tool, fs_ops>>
editorVars == <<editor_content, editor_history, trail, last_op, ed_ops>>
ctxVars == <<tree, project_root, include_context, auto_refresh_context,
             context_file_types, context_cache, last_refresh, time, fresh, last_ctx,
             ctx_ops>>
rankVars == <<cache_values, rank_time, key_files>>
moreVars == <<pathVars, fsVars, editorVars, ctxVars, rankVars>>
vars == <<parseVars, storeVars, turnVars, moreVars>>

None == [none |-> TRUE]

(***************************************************************************)
(* The components a specification does not exercise stay as constructed.   *)
(***************************************************************************)
NotResolved == [made |-> FALSE, raised |-> FALSE, path |-> [abs |-> FALSE, parts |-> <<>>]]

IdlePath ==
    /\ relative_path = [abs |-> FALSE, parts |-> <<>>]
    /\ resolved = NotResolved

NoTool == [made |-> FALSE]

IdleFs ==
    /\ files = <<>>
    /\ show_diffs = TRUE
    /\ last_tool = NoTool
    /\ fs_ops = 0

NotLoaded == [loaded |-> FALSE, lines |-> <<>>]
NoOp == [made |-> FALSE]

\* CodeEditor.__init__ (editor.py 44-48)
IdleEditor ==
    /\ editor_content = NotLoaded
    /\ editor_history = <<>>
    /\ trail = <<>>
    /\ last_op = NoOp
    /\ ed_ops = 0

NoCtx == [made |-> FALSE]
NoRoot == [none |-> TRUE, parts |-> <<>>]

\* CodebaseContext.__init__ (codebase_context.py 33-38), outside a repository
IdleContext ==
    /\ tree = <<>>
    /\ project_root = NoRoot
    /\ include_context = TRUE
    /\ auto_refresh_context = FALSE
    /\ context_file_types = {}
    /\ context_cache = <<>>
    /\ last_refresh = 0
    /\ time = 0
    /\ fresh = FALSE
    /\ last_ctx = NoCtx
    /\ ctx_ops = 0

\* parse_tools has not been called
NotParsed == [returned |-> FALSE, raised |-> FALSE, tools |-> <<>>]
NotSplit == [made |-> FALSE, thinking |-> <<>>, main |-> <<>>]

IdleSplit ==
    /\ think_text = <<>>
    /\ split = NotSplit

NotRanked == [made |-> FALSE, files |-> <<>>]

IdleRank ==
    /\ cache_values = <<>>
    /\ rank_time = 0
    /\ key_files = NotRanked

IdleMore == IdlePath /\ IdleFs /\ IdleEditor /\ IdleContext /\ IdleRank

(***************************************************************************)
(* Text.  A response is a sequence of lines (joined by "\n" in the code).  *)
(* A line is its leading indentation and its stripped text cut at every    *)
(* ':' -- "name: read_file" is <<"name", "read_file">>, "args:" is         *)
(* <<"args", "">>, "hello" is <<"hello">>, the empty line is <<"">>.       *)
(* line.split(':', 1) is then (segs[1], Tail(segs)), and a value is the    *)
(* sequence of the pieces that follow the first colon.                     *)
(***************************************************************************)
Line(ind, segs) == [ind |-> ind, segs |-> segs]
T(s) == <<s>>

OpenFence == Line(0, <<"FENCEtool">>)
CloseFence == Line(0, <<"FENCE">>)
BlankLine == Line(0, <<"">>)
ProseLine == Line(0, <<"Let me look at that.">>)

\* line.strip() == ""
IsBlank(l) == l.segs = <<"">>
\* the line holds FENCEtool followed by white space only
IsOpen(l) == l.segs = <<"FENCEtool">>
\* the line starts with FENCE, so that a newline and FENCE end the group before it
StartsFence(l) == l.ind = 0 /\ l.segs[1] \in {"FENCEtool", "FENCE"}

\* least element of a set of positions, 0 when there is none
FirstIdx(S) == IF S = {} THEN 0 ELSE CHOOSE x \in S : \A y \in S : x <= y

(***************************************************************************)
(* re.findall over tool_pattern (chat.py 507-508), on lines.  FENCE stands  *)
(* for the three backquotes of a code fence.  i is the next FENCEtool line *)
(* at or after pos.  The greedy \s* runs over every blank line after it,   *)
(* so the group starts at j, the first line that is not blank, and the     *)
(* lazy group ends before k, the first line after j that starts with       *)
(* FENCE.  When there is no such k the engine backs \s* off by one line:   *)
(* the group is then the blank line before j, if j itself starts with      *)
(* FENCE.  The search resumes after the closing FENCE.                     *)
(***************************************************************************)
RECURSIVE FindAll(_, _)
FindAll(lines, pos) ==
    LET i == FirstIdx({x \in pos..Len(lines) : IsOpen(lines[x])})
        j == FirstIdx({x \in (i + 1)..Len(lines) : ~IsBlank(lines[x])})
        k == FirstIdx({x \in (j + 1)..Len(lines) : StartsFence(lines[x])})
    IN  IF i = 0 THEN <<>>
        ELSE IF j = 0 THEN FindAll(lines, i + 1)
        ELSE IF k # 0 THEN <<SubSeq(lines, j, k - 1)>> \o FindAll(lines, k + 1)
        ELSE IF StartsFence(lines[j]) /\ j > i + 1
             THEN <<SubSeq(lines, j - 1, j - 1)>> \o FindAll(lines, j + 1)
        ELSE FindAll(lines, i + 1)

(***************************************************************************)
(* Dictionaries are functions on a finite set of string keys.              *)
(***************************************************************************)
EmptyDict == <<>>
Put(d, k, v) == [x \in (DOMAIN d) \cup {k} |-> IF x = k THEN v ELSE d[x]]
Has(d, k) == k \in DOMAIN d
Get(d, k, default) == IF k \in DOMAIN d THEN d[k] ELSE default

(***************************************************************************)
(* _parse_args: quote removal, then json.loads with the raw text kept on   *)
(* a decode failure.  Both read characters, so they are tabulated on the   *)
(* values the model's texts use.  json.loads raises JSONDecodeError on a   *)
(* text that is not JSON, and a ValueError that is not a JSONDecodeError   *)
(* on an integer of more than 4300 digits: that one is not caught in       *)
(* _parse_args and leaves _parse_tool_block as an exception.               *)
(* A decoded value is written <<type, text>>, which sets the number 42     *)
(* apart from the text "42".                                               *)
(***************************************************************************)
HugeInt == "99999 (5000 digits)"
ParseRaised == [raised |-> TRUE]

Unquote(value) ==
    IF value = <<"\"a.py\"">> THEN <<"a.py">>
    ELSE IF value = <<"'a.py'">> THEN <<"a.py">>
    ELSE value

JsonLoads(value) ==
    IF value = <<"42">> THEN [ok |-> TRUE, raised |-> FALSE, val |-> <<"number", "42">>]
    ELSE IF value = <<"true">>
    THEN [ok |-> TRUE, raised |-> FALSE, val |-> <<"boolean", "true">>]
    ELSE IF value = <<HugeInt>> THEN [ok |-> FALSE, raised |-> TRUE, val |-> value]
    ELSE [ok |-> FALSE, raised |-> FALSE, val |-> value]

\* line.startswith('#')
IsComment(value) == value[1] \in {"# note"}

\* args_str is the rest of the "args:" line: one line, never the lines below it
_parse_args(args_str) ==
    IF args_str = <<"">> \/ IsComment(args_str) THEN EmptyDict
    ELSE IF Len(args_str) >= 2
         THEN LET key == args_str[1]
                  value == Unquote(Tail(args_str))
              IN  IF JsonLoads(value).raised THEN ParseRaised
                  ELSE Put(EmptyDict, key, JsonLoads(value).val)
    ELSE EmptyDict

\* the body of the loop over the lines of a block (chat.py 525-544); an
\* exception ends the loop
ParseBlockLine(l, tool_data) ==
    IF tool_data = ParseRaised THEN ParseRaised
    ELSE IF IsBlank(l) \/ Len(l.segs) < 2 THEN tool_data
    ELSE LET key == l.segs[1]
             value == Tail(l.segs)
         IN  IF key = "name" THEN Put(tool_data, "name", value)
             ELSE IF key = "args"
             THEN IF _parse_args(value) = ParseRaised THEN ParseRaised
                  ELSE Put(tool_data, "args", _parse_args(value))
             ELSE Put(tool_data, "args", Put(Get(tool_data, "args", EmptyDict), key, value))

RECURSIVE ParseBlockLines(_, _)
ParseBlockLines(lines, tool_data) ==
    IF lines = <<>> THEN tool_data
    ELSE ParseBlockLines(Tail(lines), ParseBlockLine(Head(lines), tool_data))

\* "Fix common parameter mismatches" (chat.py 546-553)
FixSearchContent(tool_data) ==
    IF Get(tool_data, "name", <<>>) = T("search_content") /\ Has(tool_data, "args")
       /\ Has(tool_data["args"], "pattern") /\ ~Has(tool_data["args"], "query")
    THEN Put(tool_data, "args",
             Put(Put(tool_data["args"], "query", tool_data["args"]["pattern"]),
                 "pattern", T("*")))
    ELSE tool_data

_parse_tool_block(block) ==
    LET tool_data == ParseBlockLines(block, EmptyDict)
    IN  IF tool_data = ParseRaised THEN ParseRaised
        ELSE IF Has(tool_data, "name") THEN FixSearchContent(tool_data)
        ELSE None

\* what a call of parse_tools comes to: the list it returns, or the
\* exception that leaves it
NoTools == [raised |-> FALSE, tools |-> <<>>]

\* the loop of parse_tools without its except branch
RECURSIVE CollectTools_no_except(_)
CollectTools_no_except(matches) ==
    IF matches = <<>> THEN NoTools
    ELSE LET tool_data == _parse_tool_block(Head(matches))
             rest == CollectTools_no_except(Tail(matches))
         IN  IF tool_data = ParseRaised THEN [raised |-> TRUE, tools |-> <<>>]
             ELSE IF tool_data = None THEN rest
             ELSE [rest EXCEPT !.tools = <<tool_data>> \o @]

\* the loop of parse_tools (chat.py 510-516): a block whose parse raises is
\* reported on the console and left out
RECURSIVE CollectTools(_)
CollectTools(matches) ==
    IF matches = <<>> THEN NoTools
    ELSE LET tool_data == _parse_tool_block(Head(matches))
             rest == CollectTools(Tail(matches))
         IN  IF tool_data = ParseRaised \/ tool_data = None THEN rest
             ELSE [rest EXCEPT !.tools = <<tool_data>> \o @]

ParseOutcome(text) == CollectTools(FindAll(text, 1))

parse_tools(text) == ParseOutcome(text).tools

(***************************************************************************)
(* ChatManager.  A ChatSession and a ChatMessage are records of their      *)
(* dataclass fields; chat_data is the JSON object save_chat writes, a      *)
(* dictionary that load_chat reads key by key.  Times are whole seconds:   *)
(* the chat id is the creation time at one-second granularity.             *)
(***************************************************************************)
NoTitle == [text |-> "", at |-> 0]
AutoTitle(now) == [text |-> "Chat", at |-> now]

create_new_chat(title, now) ==
    [ id |-> now,
      title |-> IF title = NoTitle THEN AutoTitle(now) ELSE title,
      created_at |-> now,
      last_modified |-> now,
      messages |-> <<>>,
      total_tokens |-> 0 ]

ChatMessage(role, content, now, tokens_used) ==
    [role |-> role, content |-> content, timestamp |-> now, tokens_used |-> tokens_used]

\* add_message with the update of total_tokens left out
add_message_forgets_total(chat, role, content, tokens_used, now) ==
    LET c == IF chat = None THEN create_new_chat(NoTitle, now) ELSE chat
    IN  [c EXCEPT !.messages = Append(@, ChatMessage(role, content, now, tokens_used))]

\* add_message, on the session it appends to (create_new_chat first when there is none)
add_message(chat, role, content, tokens_used, now) ==
    LET c == IF chat = None THEN create_new_chat(NoTitle, now) ELSE chat
    IN  [c EXCEPT !.messages = Append(@, ChatMessage(role, content, now, tokens_used)),
                  !.total_tokens = @ + tokens_used]

\* the message objects written without their tokens_used
MessageData_without_tokens(msg) ==
    [role |-> msg.role, content |-> msg.content, timestamp |-> msg.timestamp]

\* the message objects save_chat writes (chat_manager.py 78-86)
MessageData(msg) ==
    [role |-> msg.role, content |-> msg.content,
     timestamp |-> msg.timestamp, tokens_used |-> msg.tokens_used]

\* chat_data of save_chat, for the session with last_modified already updated
ChatData(chat) ==
    [ id |-> chat.id,
      title |-> chat.title,
      created_at |-> chat.created_at,
      last_modified |-> chat.last_modified,
      total_tokens |-> chat.total_tokens,
      messages |-> [i \in 1..Len(chat.messages) |-> MessageData(chat.messages[i])] ]

\* the keys load_chat subscripts: a missing one is the KeyError it catches
ChatKeys == {"id", "title", "created_at", "last_modified", "messages"}
MessageKeys == {"role", "content", "timestamp"}

\* the session load_chat builds from a record, None on KeyError
ParseChatData(chat_data) ==
    IF ~(ChatKeys \subseteq DOMAIN chat_data) THEN None
    ELSE IF \E i \in 1..Len(chat_data["messages"]) :
                ~(MessageKeys \subseteq DOMAIN chat_data["messages"][i]) THEN None
    ELSE [ id |-> chat_data["id"],
           title |-> chat_data["title"],
           created_at |-> chat_data["created_at"],
           last_modified |-> chat_data["last_modified"],
           messages |-> [i \in 1..Len(chat_data["messages"]) |->
               LET msg == chat_data["messages"][i]
               IN  ChatMessage(msg["role"], msg["content"], msg["timestamp"],
                               Get(msg, "tokens_used", 0))],
           total_tokens |-> Get(chat_data, "total_tokens", 0) ]

Remove(d, k) == [x \in (DOMAIN d) \ {k} |-> d[x]]

\* a record file that does not hold a JSON object, by what reading it does
\* (chat_manager.py 100-101, 103-110):
\*   truncated   the text is not JSON: json.load raises JSONDecodeError
\*   not_utf8    the bytes are not UTF-8: the read raises UnicodeDecodeError
\*   not_object  the text is JSON but no object (null, a list):
\*               chat_data["messages"] raises TypeError
DamageKinds == {"truncated", "not_utf8", "not_object"}
Damaged(kind) == [damaged |-> kind]
IsDamaged(chat_data) == "damaged" \in DOMAIN chat_data

\* load_chat on the content of an existing record file: the session it
\* returns, None after the JSONDecodeError or KeyError it catches (125-127),
\* or the exception that leaves it
load_chat(chat_data) ==
    IF IsDamaged(chat_data)
    THEN IF chat_data["damaged"] = "truncated"
         THEN [raised |-> FALSE, chat |-> None]
         ELSE [raised |-> TRUE, chat |-> None]
    ELSE [raised |-> FALSE, chat |-> ParseChatData(chat_data)]

(***************************************************************************)
(* ToolManager.execute_tool (tools.py 47-65).  The result is a string: its *)
(* leading words and the tool's name are kept.  outcome is what the        *)
(* capability does: it returns its text, or it raises; the subprocess of   *)
(* run_command may also outlive its timeout.                               *)
(***************************************************************************)
Registry ==
    { T("read_file"), T("write_file"), T("edit_file"), T("search_files"),
      T("search_content"), T("run_command"), T("list_directory"),
      T("get_file_info"), T("create_diff"), T("delete_file"),
      T("create_directory"), T("move_file"), T("copy_file") }

ToolOutcomes == {"returns", "raises", "times_out"}

\* which outcomes a tool has: only _run_command starts a subprocess, and
\* only for a command that is not empty (tools.py 318-322)
OutcomeOf(tool_data, outcome) ==
    \/ outcome = "returns"
    \/ outcome = "raises" /\ Get(tool_data, "name", None) \in Registry
    \/ /\ outcome = "times_out"
       /\ Get(tool_data, "name", None) = T("run_command")
       /\ Has(Get(tool_data, "args", EmptyDict), "command")

\* _run_command on a timeout (tools.py 336-357): subprocess.run(timeout=30)
\* kills the shell it started and raises TimeoutExpired, which becomes the
\* returned text; no request to terminate comes before the kill
TimeoutSignals == <<"kill">>

execute_tool(tool_data, outcome) ==
    LET tool_name == Get(tool_data, "name", None)
    IN  IF tool_name \notin Registry
        THEN [text |-> "Unknown tool", name |-> tool_name]
        ELSE IF outcome = "raises"
        THEN [text |-> "Error executing", name |-> tool_name]
        ELSE IF outcome = "times_out"
        THEN [text |-> "Command timed out", name |-> tool_name]
        ELSE [text |-> "output", name |-> tool_name]

\* the working directory of the process when the loop is entered, and the
\* directories that exist under it
OriginalDir == <<".">>
ExistingDirs == {<<".">>, <<"src">>}

\* the working directory after _run_command (tools.py 318-357), by what the
\* subprocess does: with no command nothing is run (321-322); the directory
\* argument is entered when it exists and is a directory (329-330); the
\* directory of before is entered again after subprocess.run has returned,
\* whatever the exit code (342), and on no other path: not in the handler of
\* TimeoutExpired (354-355), not in the handler of another exception of
\* subprocess.run (356-357)
_run_command_cwd(args, outcome, cwd) ==
    LET directory == Get(args, "directory", <<".">>)
        entered == IF directory \in ExistingDirs
                   THEN (IF directory = <<".">> THEN cwd ELSE directory)
                   ELSE cwd
    IN  IF ~Has(args, "command") THEN cwd
        ELSE IF outcome = "returns" THEN cwd
        ELSE entered

\* the working directory after execute_tool
cwd_after(tool_data, outcome, cwd) ==
    IF Get(tool_data, "name", None) = T("run_command")
    THEN _run_command_cwd(Get(tool_data, "args", EmptyDict), outcome, cwd)
    ELSE cwd

\* the entry _execute_tools_and_collect_results appends (core.py 262-269):
\* execute_tool returns in every case, so the except branch (282-291) is
\* left to failures of the console alone, which is taken not to fail
ExecutedEntry(tool, result) == Put(Put(tool, "result", result), "status", "success")

\* _create_tool_summary (core.py 320-343), one entry for each executed tool
SummaryEntry(tool) ==
    [ name |-> Get(tool, "name", T("unknown")),
      args |-> Get(tool, "args", EmptyDict),
      label |-> IF Get(tool, "status", "unknown") = "success" THEN "Result"
                ELSE IF Get(tool, "status", "unknown") = "error" THEN "Error"
                ELSE "",
      result |-> Get(tool, "result", "No result") ]

_create_followup_prompt(executed) ==
    [i \in 1..Len(executed) |-> SummaryEntry(executed[i])]

(***************************************************************************)
(* ChatInterface: one model call (chat.py 83-139, 285-436).                *)
(***************************************************************************)
HistoryWindow == 10

Last(seq, n) == IF Len(seq) <= n THEN seq ELSE SubSeq(seq, Len(seq) - n + 1, Len(seq))

SystemPrompt == [role |-> "system", content |-> "You are Pointer CLI"]
Entry(role, content) == [role |-> role, content |-> content]

\* _prepare_request, called after the message has been appended to the history
_prepare_request(message, history) ==
    [ messages |-> <<SystemPrompt>> \o Last(history, HistoryWindow)
                   \o <<Entry("user", message)>>,
      stream |-> TRUE ]

NoUsage == [given |-> FALSE, total_tokens |-> 0]
Usage(n) == [given |-> TRUE, total_tokens |-> n]

\* the "data: " frames of a streaming reply, by what the loop makes of the
\* payload (chat.py 350-374):
\*   content    choices[0].delta.content is a text
\*   malformed  the payload is not JSON: json.loads raises JSONDecodeError
\*   usage      JSON with no choices[0].delta.content, carrying the final
\*              usage.total_tokens
\*   mistyped   JSON with a field of another type (delta.content null, delta
\*              null, a payload that is a number): the membership test or
\*              the += raises TypeError; a line that is not UTF-8 raises in
\*              line.decode in the same way
Content(lines) == [kind |-> "content", text |-> lines, usage |-> NoUsage]
Malformed == [kind |-> "malformed", text |-> <<>>, usage |-> NoUsage]
UsageFrame(n) == [kind |-> "usage", text |-> <<>>, usage |-> Usage(n)]
Mistyped == [kind |-> "mistyped", text |-> <<>>, usage |-> NoUsage]

NotOpen == [open |-> FALSE, frames |-> <<>>]
NoRequest == [messages |-> <<>>, stream |-> FALSE]
NoResponse == [returned |-> FALSE, text |-> <<>>, tokens |-> 0]
Returned(text, tokens) == [returned |-> TRUE, text |-> text, tokens |-> tokens]

\* what the fallback hands back (chat.py 103, 421-426): the content of the
\* completed message, and usage.total_tokens when the reply carries it
\* the fallback's content put after what the aborted stream had delivered
FallbackResponse_leaks(content, usage, partial) ==
    Returned(partial \o content, IF usage.given THEN usage.total_tokens ELSE 0)

FallbackResponse(content, usage, partial) ==
    Returned(content, IF usage.given THEN usage.total_tokens ELSE 0)

NewTurn ==
    [ ai_calls |-> 0,        \* calls of get_ai_response_with_tokens
      posts |-> <<>>,        \* the HTTP requests of the call in flight
      fallback |-> NoResponse, \* what the fallback of the last call returned
      decisions |-> <<>>,    \* the policy decision on each batch
      batches |-> 0,         \* batches whose execution has begun
      tool_calls |-> 0,      \* calls of execute_tool
      signals |-> <<>>,      \* what the last subprocess to time out was sent
      in_flight |-> 0,       \* calls of execute_tool that have not returned
      order |-> <<>>,        \* the positions in the batch of the calls started
      fragments |-> 0,       \* content fragments received on the request in flight
      usage |-> NoUsage,     \* the usage figure the endpoint gave on that request
      error |-> FALSE,       \* the turn ended in the except branch
      counted |-> 0,         \* what the turn has added to PointerCLI.total_tokens
      cwd |-> <<".">> ]      \* the working directory of the process

\* the chat loop is entered: run() has set running (core.py 59-79)
InitTurn ==
    /\ running = TRUE
    /\ auto_run_mode = TRUE
    /\ pc = "Idle"
    /\ pass = 0
    /\ conversation_history = <<>>
    /\ request_data = NoRequest
    /\ stream = NotOpen
    /\ full_response = <<>>
    /\ token_count = 0
    /\ ai_response = NoResponse
    /\ followup_response = NoResponse
    /\ tools_to_execute = <<>>
    /\ followup_tools = <<>>
    /\ tool_index = 0
    /\ executed_tools = <<>>
    /\ turn = NewTurn
    /\ turns = 0

(***************************************************************************)
(* SpecStore: the ChatManager operations, in any order.                    *)
(***************************************************************************)
MaxOps == 7         \* store operations (clock ticks included) in a behaviour

MissingId == 0 - 1  \* a chat id no record has
TitleInputs == {NoTitle}
MessageInputs == {<<"user", 0>>, <<"assistant", 3>>}
NoDelete == [made |-> FALSE, id |-> 0, existed |-> FALSE, current |-> None]
NoLoad == [id |-> MissingId, result |-> None, made |-> FALSE, raised |-> FALSE]

\* what the ChatManager operations leave alone
notStore == <<parseVars, turnVars, moreVars>>

InitStore ==
    /\ current_chat = None
    /\ chats_dir = EmptyDict
    /\ clock = 0
    /\ saved = EmptyDict
    /\ last_load = NoLoad
    /\ last_delete = NoDelete
    /\ ops = 0

Tick ==
    /\ ops < MaxOps
    /\ UNCHANGED notStore
    /\ clock' = clock + 1
    /\ ops' = ops + 1
    /\ UNCHANGED <<current_chat, chats_dir, saved, last_load, last_delete>>

CreateNewChat(title) ==
    /\ ops < MaxOps
    /\ UNCHANGED notStore
    /\ current_chat' = create_new_chat(title, clock)
    /\ last_load' = NoLoad
    /\ last_delete' = NoDelete
    /\ ops' = ops + 1
    /\ UNCHANGED <<chats_dir, clock, saved>>

AddMessage(role, content, tokens_used) ==
    /\ ops < MaxOps
    /\ UNCHANGED notStore
    /\ current_chat' = add_message(current_chat, role, content, tokens_used, clock)
    /\ last_load' = NoLoad
    /\ last_delete' = NoDelete
    /\ ops' = ops + 1
    /\ UNCHANGED <<chats_dir, clock, saved>>

\* save_chat(): returns at once when there is no current chat
SaveChat ==
    /\ ops < MaxOps
    /\ UNCHANGED notStore
    /\ IF current_chat = None
       THEN UNCHANGED <<current_chat, chats_dir, saved>>
       ELSE LET chat == [current_chat EXCEPT !.last_modified = clock]
            IN  /\ current_chat' = chat
                /\ chats_dir' = Put(chats_dir, chat.id, ChatData(chat))
                /\ saved' = Put(saved, chat.id, chat)
    /\ last_load' = NoLoad
    /\ last_delete' = NoDelete
    /\ ops' = ops + 1
    /\ UNCHANGED clock

LoadChat(chat_id) ==
    /\ ops < MaxOps
    /\ UNCHANGED notStore
    /\ LET loaded == IF Has(chats_dir, chat_id)
                     THEN load_chat(chats_dir[chat_id])
                     ELSE [raised |-> FALSE, chat |-> None]
       IN  /\ current_chat' = IF loaded.chat = None THEN current_chat ELSE loaded.chat
           /\ last_load' = [id |-> chat_id, result |-> loaded.chat, made |-> TRUE,
                            raised |-> loaded.raised]
    /\ last_delete' = NoDelete
    /\ ops' = ops + 1
    /\ UNCHANGED <<chats_dir, clock, saved>>

\* a delete_chat that removes the record and leaves the current session
DeleteChat_keeps_current(chat_id) ==
    /\ ops < MaxOps
    /\ UNCHANGED notStore
    /\ chats_dir' = Remove(chats_dir, chat_id)
    /\ saved' = Remove(saved, chat_id)
    /\ last_load' = NoLoad
    /\ last_delete' = [made |-> TRUE, id |-> chat_id, existed |-> Has(chats_dir, chat_id),
                       current |-> current_chat]
    /\ ops' = ops + 1
    /\ UNCHANGED <<clock, current_chat>>

DeleteChat(chat_id) ==
    /\ ops < MaxOps
    /\ UNCHANGED notStore
    /\ IF Has(chats_dir, chat_id)
       THEN /\ chats_dir' = Remove(chats_dir, chat_id)
            /\ saved' = Remove(saved, chat_id)
            /\ current_chat' = IF current_chat # None /\ current_chat.id = chat_id
                               THEN None ELSE current_chat
       ELSE UNCHANGED <<current_chat, chats_dir, saved>>
    /\ last_load' = NoLoad
    /\ last_delete' = [made |-> TRUE, id |-> chat_id, existed |-> Has(chats_dir, chat_id),
                       current |-> current_chat]
    /\ ops' = ops + 1
    /\ UNCHANGED clock

\* the file of a record is altered from outside the program: its content is
\* replaced by something that is no JSON object, or it loses a field
DamageRecord(chat_id, damage) ==
    /\ ops < MaxOps
    /\ UNCHANGED notStore
    /\ Has(chats_dir, chat_id)
    /\ ~IsDamaged(chats_dir[chat_id])
    /\ damage \in DamageKinds \/ damage \in DOMAIN chats_dir[chat_id]
    /\ chats_dir' = Put(chats_dir, chat_id,
                        IF damage \in DamageKinds THEN Damaged(damage)
                        ELSE Remove(chats_dir[chat_id], damage))
    /\ saved' = Remove(saved, chat_id)
    /\ last_load' = NoLoad
    /\ last_delete' = NoDelete
    /\ ops' = ops + 1
    /\ UNCHANGED <<clock, current_chat>>

\* the required fields a record may lose
LostFields == {"title", "messages"}

\* the ids a caller may name: the persisted ones, the current session's, and
\* one that does not exist
ChatIds ==
    (DOMAIN chats_dir) \cup {MissingId}
        \cup (IF current_chat = None THEN {} ELSE {current_chat.id})

NextStore ==
    \/ Tick
    \/ \E title \in TitleInputs : CreateNewChat(title)
    \/ \E m \in MessageInputs : AddMessage(m[1], "hello", m[2])
    \/ SaveChat
    \/ \E chat_id \in ChatIds : LoadChat(chat_id)
    \/ \E chat_id \in ChatIds : DeleteChat(chat_id)
    \/ \E chat_id \in DOMAIN chats_dir, damage \in DamageKinds \cup LostFields :
            DamageRecord(chat_id, damage)

InitStoreSpec ==
    /\ InitStore
    /\ InitTurn
    /\ IdleMore
    /\ response = <<>>
    /\ parsed = NotParsed
    /\ IdleSplit

SpecStore == InitStoreSpec /\ [][NextStore]_vars

(***************************************************************************)
(* SpecParse: parse_tools applied to bounded response texts.               *)
(***************************************************************************)
MaxBlocks == 3      \* segments (prose lines, tool blocks) of a response text
MaxContent == 4     \* lines inside the block of a single-block text

NameLine(n) == Line(0, <<"name", n>>)
ArgsLine == Line(0, <<"args", "">>)
Nested(k, v) == Line(2, <<k, v>>)
TopLevel(k, v) == Line(0, <<k, v>>)

Block(content) == <<OpenFence>> \o content \o <<CloseFence>>

\* the segments of the multi-block texts
Segments ==
    { <<ProseLine>>,
      Block(<<>>),
      Block(<<BlankLine>>),
      Block(<<ArgsLine, Nested("path", "a.py")>>),
      Block(<<NameLine("read_file")>>),
      Block(<<NameLine("write_file"), ArgsLine, Nested("path", "a.py")>>) }

RECURSIVE Flatten(_)
Flatten(segs) == IF segs = <<>> THEN <<>> ELSE Head(segs) \o Flatten(Tail(segs))

SeqsUpTo(S, n) == UNION {[1..m -> S] : m \in 0..n}

MultiTexts == {Flatten(segs) : segs \in SeqsUpTo(Segments, MaxBlocks)}

\* the lines of the single-block texts
ContentLines ==
    { NameLine("read_file"), NameLine("search_content"), ArgsLine,
      Nested("path", "a.py"), Nested("pattern", "foo"), Nested("name", "x"),
      TopLevel("path", "b.py"), BlankLine }

SingleTexts == {Block(c) : c \in SeqsUpTo(ContentLines, MaxContent)}

\* texts about argument values: a named block with an args: line, empty or
\* holding a pair, and nested lines under it; alone or before a second block
MaxArgs == 2        \* nested lines under args: in a text about values
ArgValues == {"42", "true", "\"a.py\"", "a.py", HugeInt}
InlineArgs(k, v) == Line(0, <<"args", k, v>>)
ArgsLines == {ArgsLine} \cup {InlineArgs("n", v) : v \in ArgValues}
ValueLines == {Nested("n", v) : v \in ArgValues}
ArgTexts ==
    { Block(<<NameLine("write_file"), a>> \o n) \o tail :
        a \in ArgsLines, n \in SeqsUpTo(ValueLines, MaxArgs),
        tail \in {<<>>, Block(<<NameLine("read_file")>>)} }

InitParse ==
    /\ response \in MultiTexts \cup SingleTexts \cup ArgTexts
    /\ parsed = NotParsed
    /\ IdleSplit
    /\ InitStore
    /\ InitTurn
    /\ IdleMore

ParseTools ==
    /\ ~parsed.returned
    /\ parsed' = [returned |-> ~ParseOutcome(response).raised,
                   raised |-> ParseOutcome(response).raised,
                   tools |-> ParseOutcome(response).tools]
    /\ UNCHANGED <<response, think_text, split, storeVars, turnVars, moreVars>>

NextParse == ParseTools

SpecParse == InitParse /\ [][NextParse]_vars

(***************************************************************************)
(* SpecSplit: _split_ai_response (chat.py 438-455, the same body in        *)
(* core.py 415-432).  A text is a sequence of pieces: the two markers, a   *)
(* word and white space.  re.search finds the leftmost <think> that has a  *)
(* </think> after it and, the group being lazy, the first </think> after   *)
(* it; re.sub removes every such pair from left to right; strip() drops    *)
(* the white space at both ends.                                           *)
(***************************************************************************)
MaxPieces == 4      \* pieces of a text handed to _split_ai_response

OpenMark == "<think>"
CloseMark == "</think>"
Pieces == {OpenMark, CloseMark, "a", " "}

RECURSIVE lstrip(_)
lstrip(text) ==
    IF text # <<>> /\ Head(text) = " " THEN lstrip(Tail(text)) ELSE text

RECURSIVE rstrip(_)
rstrip(text) ==
    IF text # <<>> /\ text[Len(text)] = " "
    THEN rstrip(SubSeq(text, 1, Len(text) - 1))
    ELSE text

strip(text) == rstrip(lstrip(text))

\* re.search(r'<think>(.*?)</think>', text, DOTALL): the positions of the
\* two markers of the match, <<0, 0>> when there is none
think_match(text) ==
    LET i == FirstIdx({x \in 1..Len(text) : text[x] = OpenMark})
        j == FirstIdx({x \in (i + 1)..Len(text) : text[x] = CloseMark})
    IN  IF i = 0 \/ j = 0 THEN <<0, 0>> ELSE <<i, j>>

\* re.sub(r'<think>.*?</think>', '', text, DOTALL)
RECURSIVE RemoveThink(_)
RemoveThink(text) ==
    LET m == think_match(text)
    IN  IF m = <<0, 0>> THEN text
        ELSE SubSeq(text, 1, m[1] - 1)
             \o RemoveThink(SubSeq(text, m[2] + 1, Len(text)))

\* a split that takes what follows an opening marker with no closing one
\* as thinking content
_split_ai_response_leaks(text) ==
    LET m == think_match(text)
        i == FirstIdx({x \in 1..Len(text) : text[x] = OpenMark})
    IN  IF m # <<0, 0>>
        THEN [made |-> TRUE,
              thinking |-> strip(SubSeq(text, m[1] + 1, m[2] - 1)),
              main |-> strip(RemoveThink(text))]
        ELSE IF i # 0
        THEN [made |-> TRUE,
              thinking |-> strip(SubSeq(text, i + 1, Len(text))),
              main |-> strip(SubSeq(text, 1, i - 1))]
        ELSE [made |-> TRUE, thinking |-> <<>>, main |-> text]

_split_ai_response(text) ==
    LET m == think_match(text)
    IN  IF m # <<0, 0>>
        THEN [made |-> TRUE,
              thinking |-> strip(SubSeq(text, m[1] + 1, m[2] - 1)),
              main |-> strip(RemoveThink(text))]
        ELSE [made |-> TRUE, thinking |-> <<>>, main |-> text]

InitSplit ==
    /\ think_text \in SeqsUpTo(Pieces, MaxPieces)
    /\ split = NotSplit
    /\ response = <<>>
    /\ parsed = NotParsed
    /\ InitStore
    /\ InitTurn
    /\ IdleMore

SplitResponse ==
    /\ ~split.made
    /\ split' = _split_ai_response(think_text)
    /\ UNCHANGED <<response, parsed, think_text, storeVars, turnVars, moreVars>>

NextSplit == SplitResponse

SpecSplit == InitSplit /\ [][NextSplit]_vars

\* an opening marker with a closing marker somewhere after it
HasPair(text) ==
    \E i \in 1..Len(text), j \in 1..Len(text) :
        i < j /\ text[i] = OpenMark /\ text[j] = CloseMark

\* C31: the reasoning segment _split_ai_response returns is not empty only
\* for a text that holds the opening marker with the closing marker after
\* it; for a text in which no closing marker follows an opening one the
\* reasoning segment is empty and the final segment is the text as it was.
C31_UnterminatedIsFinal ==
    split.made =>
        /\ split.thinking # <<>> => HasPair(think_text)
        /\ ~HasPair(think_text) =>
              /\ split.thinking = <<>>
              /\ split.main = think_text

\* a text with white space, an opening marker and a word but no closing
\* marker, returned whole
C31_Witness ==
    /\ split.made
    /\ think_text = <<" ", OpenMark, "a">>
    /\ split.thinking = <<>>
    /\ split.main = think_text

(***************************************************************************)
(* Spec: the chat loop (core.py 126-147) and one user turn (180-251).      *)
(* Everything a handler does between two awaits is one step.               *)
(***************************************************************************)
MaxTurns == 1       \* user turns in a behaviour

UserMessages == {"fix the bug"}
UsageFigures == {NoUsage, Usage(5)}

ReadFileBlock == Block(<<NameLine("read_file"), ArgsLine, Nested("path", "a.py")>>)
UnknownBlock == Block(<<NameLine("fly")>>)
RunCommandBlock ==
    Block(<<NameLine("run_command"), ArgsLine, Nested("command", "sleep 60"),
            Nested("directory", "src")>>)

\* what the endpoint may stream: prose; one tool call after a frame that is
\* not JSON, with the usage figure at the end; three tool calls; a mistyped
\* frame between two fragments
StreamPlans ==
    { <<Content(<<ProseLine>>)>>,
      <<Content(<<ProseLine>>), Malformed, Content(ReadFileBlock), UsageFrame(7)>>,
      <<Content(ReadFileBlock), Content(UnknownBlock), Content(RunCommandBlock)>>,
      <<Content(<<ProseLine>>), Mistyped, Content(<<ProseLine>>)>> }

\* what the endpoint may return to the fallback
FallbackTexts ==
    { <<ProseLine>>,
      <<ProseLine>> \o ReadFileBlock,
      ReadFileBlock \o UnknownBlock \o RunCommandBlock }

notTurn == <<parseVars, chats_dir, clock, saved, last_load, last_delete, ops, moreVars>>

\* get_ai_response_with_tokens up to its first await (chat.py 85-97, 347-348)
CallModel(message, t) ==
    /\ conversation_history' = Append(conversation_history, Entry("user", message))
    /\ request_data' = _prepare_request(message, conversation_history')
    /\ stream' = NotOpen
    /\ full_response' = <<>>
    /\ token_count' = 0
    /\ pc' = "Streaming"
    /\ turn' = [t EXCEPT !.ai_calls = @ + 1, !.posts = <<"stream">>,
                         !.fallback = NoResponse, !.fragments = 0,
                         !.usage = NoUsage]

\* the turn is over: control is back in _run_chat_loop
EndTurn ==
    /\ pc' = "Idle"
    /\ pass' = 0

\* a gate that asks for the batch of the first response only
Gate_first_only(tools, t) ==
    IF tools = <<>>
    THEN EndTurn /\ tool_index' = 0 /\ turn' = t
    ELSE IF ~auto_run_mode /\ pass = 1
    THEN pc' = "AwaitingPolicy" /\ pass' = pass /\ tool_index' = 0 /\ turn' = t
    ELSE /\ pc' = "Executing"
         /\ pass' = pass
         /\ tool_index' = 1
         /\ turn' = [t EXCEPT !.decisions = Append(@, "auto"), !.batches = @ + 1,
                             !.order = <<>>]

\* the policy gate and the start of the batch (core.py 217-228, 241-246)
Gate(tools, t) ==
    IF tools = <<>>
    THEN EndTurn /\ tool_index' = 0 /\ turn' = t
    ELSE IF ~auto_run_mode
    THEN pc' = "AwaitingPolicy" /\ pass' = pass /\ tool_index' = 0 /\ turn' = t
    ELSE /\ pc' = "Executing"
         /\ pass' = pass
         /\ tool_index' = 1
         /\ turn' = [t EXCEPT !.decisions = Append(@, "auto"), !.batches = @ + 1,
                             !.order = <<>>]

\* a user message: core.py 192-203
UserMessage(message) ==
    /\ pc = "Idle"
    /\ running
    /\ turns < MaxTurns
    /\ turns' = turns + 1
    /\ current_chat' = add_message(current_chat, "user", message, 0, clock)
    /\ pass' = 1
    /\ ai_response' = NoResponse
    /\ followup_response' = NoResponse
    /\ tools_to_execute' = <<>>
    /\ followup_tools' = <<>>
    /\ tool_index' = 0
    /\ executed_tools' = <<>>
    /\ CallModel(message, [NewTurn EXCEPT !.cwd = turn.cwd])
    /\ UNCHANGED <<running, auto_run_mode>>
    /\ UNCHANGED notTurn

\* the endpoint answers the streaming request with status 200
StreamOpen(plan) ==
    /\ pc = "Streaming"
    /\ ~stream.open
    /\ stream' = [open |-> TRUE, frames |-> plan]
    /\ UNCHANGED <<running, auto_run_mode, pc, pass, conversation_history, request_data,
                   full_response, token_count, ai_response, followup_response,
                   tools_to_execute, followup_tools, tool_index, executed_tools,
                   turn, turns>>
    /\ UNCHANGED <<notTurn, current_chat>>

\* one "data: " line of the stream (chat.py 350-374).  Only JSONDecodeError
\* is caught inside the loop (373-374); any other exception of a frame
\* reaches the outer handler (385-386), the attempt raises "Streaming error"
\* and get_ai_response_with_tokens goes to the fallback (98-103).
StreamFrame ==
    /\ pc = "Streaming"
    /\ stream.open
    /\ stream.frames # <<>>
    /\ LET frame == Head(stream.frames)
       IN  IF frame.kind = "content"
           THEN /\ full_response' = full_response \o frame.text
                /\ token_count' = token_count + 1
                /\ turn' = [turn EXCEPT !.fragments = @ + 1]
                /\ pc' = pc
           ELSE IF frame.kind = "mistyped"
           THEN /\ pc' = "Fallback"
                /\ turn' = [turn EXCEPT !.posts = Append(@, "fallback"),
                                        !.fragments = 0, !.usage = NoUsage]
                /\ UNCHANGED <<full_response, token_count>>
           ELSE /\ turn' = [turn EXCEPT !.usage = IF frame.usage.given
                                                  THEN frame.usage ELSE @]
                /\ UNCHANGED <<pc, full_response, token_count>>
    /\ stream' = [stream EXCEPT !.frames = Tail(@)]
    /\ UNCHANGED <<running, auto_run_mode, pass, conversation_history, request_data,
                   ai_response, followup_response, tools_to_execute, followup_tools,
                   tool_index, executed_tools, turns>>
    /\ UNCHANGED <<notTurn, current_chat>>

\* the follow-up response stored in the session like the first one
Deliver_saves_followup(reply, t) ==
    /\ conversation_history' = Append(conversation_history, Entry("assistant", reply.text))
    /\ full_response' = <<>>
    /\ token_count' = 0
    /\ stream' = NotOpen
    /\ current_chat' = add_message(current_chat, "assistant", reply.text,
                                   reply.tokens, clock)
    /\ IF pass = 1
       THEN /\ ai_response' = reply
            /\ tools_to_execute' = parse_tools(reply.text)
            /\ UNCHANGED <<followup_response, followup_tools>>
       ELSE /\ followup_response' = reply
            /\ followup_tools' = parse_tools(reply.text)
            /\ UNCHANGED <<ai_response, tools_to_execute>>
    /\ Gate(parse_tools(reply.text), [t EXCEPT !.counted = @ + reply.tokens])
    /\ UNCHANGED <<running, auto_run_mode, request_data, executed_tools, turns>>
    /\ UNCHANGED notTurn

\* the reply of a model call is back in _process_user_message:
\* chat.py 105-111, then core.py 205-225 or 235-246.  The tokens of either
\* reply are added to PointerCLI.total_tokens (206-207, 236-237); only the
\* first reply is added to the session (210).
Deliver(reply, t) ==
    /\ conversation_history' = Append(conversation_history, Entry("assistant", reply.text))
    /\ full_response' = <<>>
    /\ token_count' = 0
    /\ stream' = NotOpen
    /\ IF pass = 1
       THEN /\ ai_response' = reply
            /\ current_chat' = add_message(current_chat, "assistant", reply.text,
                                           reply.tokens, clock)
            /\ tools_to_execute' = parse_tools(reply.text)
            /\ UNCHANGED <<followup_response, followup_tools>>
       ELSE /\ followup_response' = reply
            /\ followup_tools' = parse_tools(reply.text)
            /\ UNCHANGED <<ai_response, tools_to_execute, current_chat>>
    /\ Gate(parse_tools(reply.text), [t EXCEPT !.counted = @ + reply.tokens])
    /\ UNCHANGED <<running, auto_run_mode, request_data, executed_tools, turns>>
    /\ UNCHANGED notTurn

\* the stream ends, by [DONE] or by the end of the body (chat.py 356-357, 381)
StreamEnd ==
    /\ pc = "Streaming"
    /\ stream.open
    /\ stream.frames = <<>>
    /\ Deliver(Returned(full_response, token_count), turn)

\* the streaming attempt raises: a status other than 200, a network error or a
\* timeout, before or between frames (chat.py 98-103, 375-386)
StreamFails ==
    /\ pc = "Streaming"
    /\ pc' = "Fallback"
    /\ turn' = [turn EXCEPT !.posts = Append(@, "fallback"), !.fragments = 0,
                            !.usage = NoUsage]
    /\ UNCHANGED <<running, auto_run_mode, pass, conversation_history, request_data,
                   stream, full_response, token_count, ai_response, followup_response,
                   tools_to_execute, followup_tools, tool_index, executed_tools, turns>>
    /\ UNCHANGED <<notTurn, current_chat>>

\* the fallback returns a completed message (chat.py 404-426)
FallbackReply(content, usage) ==
    /\ pc = "Fallback"
    /\ LET reply == FallbackResponse(content, usage, full_response)
       IN  Deliver(reply, [turn EXCEPT !.fallback = Returned(content, reply.tokens),
                                       !.usage = usage])

\* a failed model call that leaves the chat loop
FallbackFails_exits ==
    /\ pc = "Fallback"
    /\ pc' = "Exited"
    /\ running' = FALSE
    /\ pass' = 0
    /\ turn' = [turn EXCEPT !.error = TRUE]
    /\ full_response' = <<>>
    /\ token_count' = 0
    /\ stream' = NotOpen
    /\ UNCHANGED <<auto_run_mode, conversation_history, request_data,
                   ai_response, followup_response, tools_to_execute, followup_tools,
                   tool_index, executed_tools, turns>>
    /\ UNCHANGED <<notTurn, current_chat>>

\* the fallback raises too: get_ai_response_with_tokens re-raises (chat.py
\* 113-116) and the turn ends in the except branch of core.py 248-251
FallbackFails ==
    /\ pc = "Fallback"
    /\ EndTurn
    /\ turn' = [turn EXCEPT !.error = TRUE]
    /\ full_response' = <<>>
    /\ token_count' = 0
    /\ stream' = NotOpen
    /\ UNCHANGED <<running, auto_run_mode, conversation_history, request_data,
                   ai_response, followup_response, tools_to_execute, followup_tools,
                   tool_index, executed_tools, turns>>
    /\ UNCHANGED <<notTurn, current_chat>>

\* _confirm_tool_execution: the user answers y (core.py 389-392); any answer
\* other than y or n asks again and changes nothing
ConfirmYes ==
    /\ pc = "AwaitingPolicy"
    /\ pc' = "Executing"
    /\ tool_index' = 1
    /\ turn' = [turn EXCEPT !.decisions = Append(@, "approved"), !.batches = @ + 1,
                            !.order = <<>>]
    /\ UNCHANGED <<running, auto_run_mode, pass, conversation_history, callVars,
                   ai_response, followup_response, tools_to_execute, followup_tools,
                   executed_tools, turns>>
    /\ UNCHANGED <<notTurn, current_chat>>

\* a decline that runs the batch all the same
ConfirmNo_executes ==
    /\ pc = "AwaitingPolicy"
    /\ pc' = "Executing"
    /\ tool_index' = 1
    /\ turn' = [turn EXCEPT !.decisions = Append(@, "declined"), !.batches = @ + 1,
                            !.order = <<>>]
    /\ UNCHANGED <<running, auto_run_mode, pass, conversation_history, callVars,
                   ai_response, followup_response, tools_to_execute, followup_tools,
                   executed_tools, turns>>
    /\ UNCHANGED <<notTurn, current_chat>>

\* the user answers n: the turn returns (core.py 223-225, 243-245)
ConfirmNo ==
    /\ pc = "AwaitingPolicy"
    /\ EndTurn
    /\ turn' = [turn EXCEPT !.decisions = Append(@, "declined")]
    /\ UNCHANGED <<running, auto_run_mode, conversation_history, callVars,
                   ai_response, followup_response, tools_to_execute, followup_tools,
                   tool_index, executed_tools, turns>>
    /\ UNCHANGED <<notTurn, current_chat>>

\* a follow-up call after every batch
FollowupDue_always(p) == TRUE

\* the follow-up call is made after the batch of the first response only
\* (core.py 228-233); the follow-up batch is run by _execute_tools and the
\* turn returns (246)
FollowupDue(p) == p = 1

\* what StartTool and ExecuteTool leave alone of the turn
notBatch == <<running, auto_run_mode, ai_response, followup_response,
              tools_to_execute, followup_tools, turns>>

\* the calls of a batch started without waiting for the one before
StartTool_gather ==
    /\ pc = "Executing"
    /\ turn.in_flight < Len(IF pass = 1 THEN tools_to_execute ELSE followup_tools)
    /\ turn' = [turn EXCEPT !.in_flight = @ + 1,
                            !.order = Append(@, tool_index + turn.in_flight)]
    /\ UNCHANGED <<pc, pass, conversation_history, callVars, tool_index,
                   executed_tools, notBatch>>
    /\ UNCHANGED <<notTurn, current_chat>>

\* the loop over the batch reaches "await self.tool_manager.execute_tool(tool)"
\* (core.py 259, 301): the tool is handed to the executor (tools.py 57-62)
\* and the loop waits for it
StartTool ==
    /\ pc = "Executing"
    /\ turn.in_flight = 0
    /\ turn' = [turn EXCEPT !.in_flight = 1, !.order = Append(@, tool_index)]
    /\ UNCHANGED <<pc, pass, conversation_history, callVars, tool_index,
                   executed_tools, notBatch>>
    /\ UNCHANGED <<notTurn, current_chat>>

\* the tool returns and the iteration ends: _execute_tools_and_collect_results
\* (core.py 257-293) in the first pass, _execute_tools (297-316) in the second;
\* after the last tool of the first pass the follow-up call is made (230-233)
ExecuteTool(outcome) ==
    /\ pc = "Executing"
    /\ turn.in_flight >= 1
    /\ LET tools == IF pass = 1 THEN tools_to_execute ELSE followup_tools
           tool == tools[tool_index]
           result == execute_tool(tool, outcome)
           executed == IF pass = 1 THEN Append(executed_tools, ExecutedEntry(tool, result))
                       ELSE executed_tools
           t == [turn EXCEPT !.tool_calls = @ + 1,
                             !.in_flight = @ - 1,
                             !.signals = IF outcome = "times_out" THEN TimeoutSignals
                                         ELSE @,
                             !.cwd = cwd_after(tool, outcome, @)]
       IN  /\ OutcomeOf(tool, outcome)
           /\ executed_tools' = executed
           /\ IF tool_index < Len(tools)
              THEN /\ tool_index' = tool_index + 1
                   /\ turn' = t
                   /\ UNCHANGED <<pc, pass, conversation_history, callVars>>
              ELSE IF FollowupDue(pass)
              THEN /\ CallModel(_create_followup_prompt(executed), t)
                   /\ pass' = 2
                   /\ tool_index' = 0
              ELSE /\ EndTurn
                   /\ tool_index' = 0
                   /\ turn' = t
                   /\ UNCHANGED <<conversation_history, callVars>>
    /\ UNCHANGED notBatch
    /\ UNCHANGED <<notTurn, current_chat>>

\* /mode (core.py 170-173)
ToggleMode ==
    /\ pc = "Idle"
    /\ running
    /\ auto_run_mode' = ~auto_run_mode
    /\ UNCHANGED <<running, pc, pass, conversation_history, callVars, ai_response,
                   followup_response, tools_to_execute, followup_tools, tool_index,
                   executed_tools, turn, turns>>
    /\ UNCHANGED <<notTurn, current_chat>>

\* /exit (core.py 159-160, 820-824)
Exit ==
    /\ pc = "Idle"
    /\ running
    /\ running' = FALSE
    /\ pc' = "Exited"
    /\ UNCHANGED <<auto_run_mode, pass, conversation_history, callVars, ai_response,
                   followup_response, tools_to_execute, followup_tools, tool_index,
                   executed_tools, turn, turns>>
    /\ UNCHANGED <<notTurn, current_chat>>

Init ==
    /\ InitTurn
    /\ InitStore
    /\ IdleMore
    /\ response = <<>>
    /\ parsed = NotParsed
    /\ IdleSplit

Next ==
    \/ \E message \in UserMessages : UserMessage(message)
    \/ \E plan \in StreamPlans : StreamOpen(plan)
    \/ StreamFrame
    \/ StreamEnd
    \/ StreamFails
    \/ \E content \in FallbackTexts, usage \in UsageFigures : FallbackReply(content, usage)
    \/ FallbackFails
    \/ ConfirmYes
    \/ ConfirmNo
    \/ StartTool
    \/ \E outcome \in ToolOutcomes : ExecuteTool(outcome)
    \/ ToggleMode
    \/ Exit

Spec == Init /\ [][Next]_vars

(***************************************************************************)
(* Properties of one turn (Spec).                                          *)
(***************************************************************************)

\* C1: in every turn get_ai_response_with_tokens is called at most twice (the
\* first call and one follow-up call) and at most two batches are executed; a
\* model call is only made before the second batch, and once the second batch
\* has run the turn is over.
C1_AtMostOneFollowup ==
    /\ turn.ai_calls <= 2
    /\ turn.batches <= 2
    /\ Len(turn.decisions) <= 2
    /\ (pass = 2 => turn.ai_calls = 2)
    /\ (pc \in {"Streaming", "Fallback"} => turn.batches <= 1 /\ turn.ai_calls = pass)
    /\ (turn.batches = 2 => turn.ai_calls = 2 /\ pc \in {"Executing", "Idle", "Exited"})

\* the follow-up batch has run to its end and the turn is over
C1_Witness ==
    /\ pc = "Idle"
    /\ turn.batches = 2
    /\ turn.ai_calls = 2
    /\ turn.tool_calls = Len(tools_to_execute) + Len(followup_tools)
    /\ followup_tools # <<>>

\* C2: in manual mode, when the user declines the batch parsed from the first
\* response, no tool of it is executed, no follow-up call is made and the turn
\* is over.
C2_DeclineRunsNothing ==
    (turn.decisions # <<>> /\ turn.decisions[1] = "declined") =>
        /\ pc \in {"Idle", "Exited"}
        /\ turn.tool_calls = 0
        /\ turn.batches = 0
        /\ executed_tools = <<>>
        /\ turn.ai_calls = 1
        /\ ~followup_response.returned

\* three pending invocations, declined
C2_Witness ==
    /\ turn.decisions = <<"declined">>
    /\ Len(tools_to_execute) = 3
    /\ pc = "Idle"
    /\ turn.tool_calls = 0

Unanswered(entries) == entries # <<>> /\ entries[Len(entries)].role = "user"

\* C4: when the streaming attempt and the fallback both fail, the turn is
\* aborted with the error surfaced, and neither the session nor the
\* conversation history holds a message of the failed exchange without its
\* reply.
C4_NoPartialExchange ==
    (turn.error /\ pc = "Idle") =>
        /\ ~Unanswered(conversation_history)
        /\ current_chat # None => ~Unanswered(current_chat.messages)

\* C9: the entry recorded for an invocation of a name that is not in the
\* registry has status error.
C9_UnknownToolIsError ==
    \A i \in 1..Len(executed_tools) :
        executed_tools[i]["name"] \notin Registry => executed_tools[i]["status"] = "error"

\* the batch of the first response runs to its end and the follow-up call is made
BatchRunsToEnd ==
    (pass = 2 \/ (pc = "Idle" /\ turn.batches >= 1 /\ ~turn.error)) =>
        /\ Len(executed_tools) = Len(tools_to_execute)
        /\ turn.ai_calls = 2

\* C10: a capability call that fails inside becomes an entry with status error
\* that carries the failure message, and the turn goes on: the rest of the
\* batch is executed and the follow-up call is made.
C10_FailureIsContainedError ==
    /\ \A i \in 1..Len(executed_tools) :
          executed_tools[i]["result"].text = "Error executing"
              => executed_tools[i]["status"] = "error"
    /\ BatchRunsToEnd

\* a step in which something of the turn fails: the model call (both the
\* stream and the fallback), the user declining the batch, or a tool
ModelCallFailed == turn'.error /\ ~turn.error
BatchDeclined ==
    /\ Len(turn'.decisions) = Len(turn.decisions) + 1
    /\ turn'.decisions[Len(turn'.decisions)] = "declined"
ToolFailed ==
    /\ pc = "Executing"
    /\ turn'.tool_calls = turn.tool_calls + 1
    /\ pass = 1
    /\ executed_tools'[Len(executed_tools')]["result"].text # "output"

\* C21: no failure inside a turn ends the chat loop.  The step that reports
\* a failed model call or a declined batch puts the loop back at its prompt
\* with running still true; a failed tool leaves the turn going on; running
\* becomes false by /exit at the prompt and by nothing else, and it is true
\* wherever the loop has not exited.
C21_FailureKeepsLoop ==
    [][ /\ (running /\ ~running') => (pc = "Idle" /\ pc' = "Exited")
        /\ (pc' # "Exited") => running'
        /\ ModelCallFailed => (pc' = "Idle" /\ running')
        /\ BatchDeclined => (pc' = "Idle" /\ running')
        /\ ToolFailed => (running' /\ pc' \in {"Executing", "Streaming"}) ]_vars

\* both the stream and the fallback failed and the loop is at its prompt again
C21_Witness ==
    /\ turn.error
    /\ turn.posts = <<"stream", "fallback">>
    /\ pc = "Idle"
    /\ running

\* C22: a command that outlives its timeout is asked to terminate, and
\* killed only after that; its invocation is recorded as an entry with status
\* error; the rest of the batch is executed and the follow-up call is made.
C22_TimeoutContained ==
    /\ turn.signals \in {<<>>, <<"terminate">>, <<"terminate", "kill">>}
    /\ \A i \in 1..Len(executed_tools) :
          executed_tools[i]["result"].text = "Command timed out"
              => executed_tools[i]["status"] = "error"
    /\ BatchRunsToEnd

\* the batch being executed
Batch == IF pass = 1 THEN tools_to_execute ELSE followup_tools

\* C24: the invocations of a batch are started in the order of the parser's
\* list, each one after the one before it has returned: at most one call of
\* execute_tool is under way at any time, the calls started so far are the
\* positions 1, 2, ... of the batch, and the results collected are those of
\* the batch's invocations in the same order.
C24_OneToolAtATime ==
    /\ turn.in_flight \in {0, 1}
    /\ \A i \in 1..Len(turn.order) : turn.order[i] = i
    /\ pc = "Executing" =>
          /\ tool_index \in 1..Len(Batch)
          /\ Len(turn.order) = tool_index - 1 + turn.in_flight
    /\ pc # "Executing" => turn.in_flight = 0
    /\ Len(executed_tools) <= Len(tools_to_execute)
    /\ \A i \in 1..Len(executed_tools) :
          /\ executed_tools[i]["name"] = tools_to_execute[i]["name"]
          /\ executed_tools[i]["result"].name = tools_to_execute[i]["name"]

\* the third invocation of a batch of three is under way, two have returned
C24_Witness ==
    /\ pc = "Executing"
    /\ pass = 1
    /\ Len(tools_to_execute) = 3
    /\ turn.order = <<1, 2, 3>>
    /\ turn.in_flight = 1
    /\ Len(executed_tools) = 2

\* a call of execute_tool for an invocation of the follow-up batch has begun
FollowupToolStarted ==
    \/ turn.tool_calls > Len(tools_to_execute)
    \/ pass = 2 /\ turn.in_flight = 1

\* C25: in manual mode the batch parsed from the follow-up response waits
\* for the user as the first one does: no invocation of it is started before
\* the user has approved that batch, no batch is let through unasked while
\* the mode is manual, and once the user has answered for the follow-up
\* batch only its execution is left of the turn: a decline ends the turn
\* with none of it executed, and no model call follows an approval.
C25_FollowupGated ==
    /\ (pass \in {1, 2} /\ ~auto_run_mode) =>
          \A i \in 1..Len(turn.decisions) : turn.decisions[i] # "auto"
    /\ FollowupToolStarted =>
          /\ Len(turn.decisions) = 2
          /\ turn.decisions[2] \in {"approved", "auto"}
    /\ (pc = "AwaitingPolicy" /\ pass = 2) =>
          /\ ~FollowupToolStarted
          /\ Len(turn.decisions) = 1
    /\ (Len(turn.decisions) = 2 /\ turn.decisions[2] = "declined") =>
          /\ pc \in {"Idle", "Exited"}
          /\ ~FollowupToolStarted
          /\ turn.ai_calls = 2
    /\ (Len(turn.decisions) = 2 /\ turn.decisions[2] = "approved") =>
          /\ pc \in {"Executing", "Idle", "Exited"}
          /\ turn.ai_calls = 2
          /\ pc = "Executing" => pass = 2

\* manual mode: both batches approved, the follow-up batch executed, the turn over
C25_Witness ==
    /\ ~auto_run_mode
    /\ turn.decisions = <<"approved", "approved">>
    /\ followup_tools # <<>>
    /\ turn.tool_calls = Len(tools_to_execute) + Len(followup_tools)
    /\ pc = "Idle"

\* the streaming loop reads the next frame of the stream
FrameRead ==
    /\ pc = "Streaming"
    /\ stream.open
    /\ stream.frames # <<>>
    /\ stream' = [stream EXCEPT !.frames = Tail(@)]

\* C28: a frame that is not a fragment (its payload is not JSON, or lacks
\* the expected fields, or has them with another type) is skipped: reading
\* it leaves the text accumulated so far as it is and the attempt goes on
\* streaming, with no fallback request; the fragment of every other frame
\* is appended to the text in the order of arrival.
C28_BadFrameSkipped ==
    [][ FrameRead =>
          IF Head(stream.frames).kind = "content"
          THEN /\ full_response' = full_response \o Head(stream.frames).text
               /\ pc' = "Streaming"
          ELSE /\ full_response' = full_response
               /\ pc' = "Streaming"
               /\ turn'.posts = turn.posts ]_vars

\* the reply of the last model call of the turn that has returned
LastReply == IF turn.ai_calls = 2 /\ followup_response.returned THEN followup_response
             ELSE ai_response

\* the request that gave LastReply is the last one made
LastReplyIsCurrent ==
    /\ LastReply.returned
    /\ turn.ai_calls = 2 => followup_response.returned

\* C29: the token count reported with a response is the number of content
\* fragments received on the request that gave it, unless the endpoint
\* supplied usage.total_tokens on that request: then it is that figure.
C29_ReportedTokens ==
    LastReplyIsCurrent =>
        LastReply.tokens = IF turn.usage.given THEN turn.usage.total_tokens
                           ELSE turn.fragments

\* C30: the request the fallback posts is not a streaming one: while the
\* fallback request is out, and when its reply has been taken as the
\* response, the request body has stream set to false.
C30_FallbackNotStreaming ==
    /\ pc = "Fallback" => ~request_data.stream
    /\ turn.fallback.returned => ~request_data.stream

(***************************************************************************)
(* Properties of the session store (SpecStore).                            *)
(***************************************************************************)
RECURSIVE SumTokens(_)
SumTokens(messages) ==
    IF messages = <<>> THEN 0
    ELSE Head(messages).tokens_used + SumTokens(Tail(messages))

\* C5: whenever there is a current session, its total_tokens is the sum of
\* tokens_used over its messages; add_message appends and adds in one step.
C5_TotalTokens ==
    current_chat # None => current_chat.total_tokens = SumTokens(current_chat.messages)

\* a session of two messages with tokens, saved and loaded again
C5_Witness ==
    /\ last_load.made
    /\ last_load.result # None
    /\ current_chat = last_load.result
    /\ Len(current_chat.messages) >= 2
    /\ current_chat.total_tokens > 0

\* C6: load_chat of an id returns the session as it was when save_chat last
\* wrote that id -- the same messages (role, content, timestamp, tokens_used)
\* in the same order and the same total_tokens -- and makes it the current
\* session.
C6_RoundTrip ==
    (last_load.made /\ Has(saved, last_load.id)) =>
        /\ last_load.result # None
        /\ last_load.result.messages = saved[last_load.id].messages
        /\ last_load.result.total_tokens = saved[last_load.id].total_tokens
        /\ last_load.result.id = last_load.id
        /\ current_chat = last_load.result

\* a saved session with messages is loaded again
C6_Witness ==
    /\ last_load.made
    /\ Has(saved, last_load.id)
    /\ Len(saved[last_load.id].messages) >= 2
    /\ saved[last_load.id].total_tokens > 0
    /\ current_chat = last_load.result

(***************************************************************************)
(* Properties of parse_tools (SpecParse).  The texts are made of prose     *)
(* lines and fenced blocks, so the blocks of a text are read off its       *)
(* fences.                                                                 *)
(***************************************************************************)
RECURSIVE FencedBlocks(_)
FencedBlocks(lines) ==
    IF lines = <<>> THEN <<>>
    ELSE IF Head(lines) = OpenFence
    THEN LET close == FirstIdx({x \in 2..Len(lines) : lines[x] = CloseFence})
         IN  IF close = 0 THEN <<>>
             ELSE <<SubSeq(lines, 2, close - 1)>>
                  \o FencedBlocks(SubSeq(lines, close + 1, Len(lines)))
    ELSE FencedBlocks(Tail(lines))

\* a line that sets the name: its key is name, wherever the line stands
IsNameLine(l) == Len(l.segs) >= 2 /\ l.segs[1] = "name"
NameLinesOf(block) == {i \in 1..Len(block) : IsNameLine(block[i])}
\* the name a block declares (its last name line)
DeclaredName(block) ==
    LET last == CHOOSE i \in NameLinesOf(block) : \A j \in NameLinesOf(block) : j <= i
    IN  Tail(block[last].segs)

RECURSIVE NamesOf(_)
NamesOf(blocks) ==
    IF blocks = <<>> THEN <<>>
    ELSE (IF NameLinesOf(Head(blocks)) # {} THEN <<DeclaredName(Head(blocks))>> ELSE <<>>)
         \o NamesOf(Tail(blocks))

ParsedNames == [i \in 1..Len(parsed.tools) |-> parsed.tools[i]["name"]]

\* C7: parse_tools returns one invocation for each tool block that has a name
\* line and none for a block without, in the order of the blocks in the text.
C7_OneInvocationPerNamedBlock ==
    parsed.returned => ParsedNames = NamesOf(FencedBlocks(response))

\* a name line, an args line and nested key: value lines, in one block
WellFormedSingle(text) ==
    /\ Len(text) >= 4
    /\ text[1] = OpenFence
    /\ text[Len(text)] = CloseFence
    /\ IsNameLine(text[2]) /\ text[2].ind = 0
    /\ text[3] = ArgsLine
    /\ \A i \in 4..(Len(text) - 1) : text[i].ind > 0 /\ Len(text[i].segs) = 2

\* C8: for a well-formed single-block text parse_tools returns exactly one
\* invocation, whose name is the declared name and whose args hold every
\* declared key.
C8_WellFormedSingleBlock ==
    (parsed.returned /\ WellFormedSingle(response)) =>
        /\ Len(parsed.tools) = 1
        /\ parsed.tools[1]["name"] = Tail(response[2].segs)
        /\ \A i \in 4..(Len(response) - 1) :
              Has(Get(parsed.tools[1], "args", EmptyDict), response[i].segs[1])

(***************************************************************************)
(* SpecPath: resolve_path (App/backend/tools_handlers.py 19-49) on bounded *)
(* paths.  A path is whether it is absolute and its components; a          *)
(* component is its characters, so that str.startswith is a prefix test on *)
(* the characters of the joined path.  POSIX os.path.                      *)
(***************************************************************************)
MaxDepth == 3       \* components of a path argument

Up == <<".", ".">>
Dot == <<".">>
\* os.getcwd(): /h/ws
Cwd == << <<"h">>, <<"w", "s">> >>
Names == { Up, Dot, <<"a">>, <<"o">>, <<"w", "s">>, <<"w", "s", "2">>, <<"h">> }

PathArgs == [abs : BOOLEAN, parts : SeqsUpTo(Names, MaxDepth)]

\* os.path.normpath on the components of an absolute path: "." is dropped,
\* ".." removes the component before it, and stays at the root
RECURSIVE NormParts(_, _)
NormParts(todo, done) ==
    IF todo = <<>> THEN done
    ELSE IF Head(todo) = Dot THEN NormParts(Tail(todo), done)
    ELSE IF Head(todo) = Up
         THEN NormParts(Tail(todo),
                        IF done = <<>> THEN <<>> ELSE SubSeq(done, 1, Len(done) - 1))
    ELSE NormParts(Tail(todo), Append(done, Head(todo)))

normpath(parts) == NormParts(parts, <<>>)

\* the characters of an absolute path
RECURSIVE PathString(_)
PathString(parts) ==
    IF parts = <<>> THEN <<>>
    ELSE <<"/">> \o Head(parts) \o PathString(Tail(parts))

\* str.startswith
startswith(str, prefix) ==
    /\ Len(str) >= Len(prefix)
    /\ SubSeq(str, 1, Len(prefix)) = prefix

Raised == [made |-> TRUE, raised |-> TRUE, path |-> [abs |-> FALSE, parts |-> <<>>]]
ReturnedPath(path) == [made |-> TRUE, raised |-> FALSE, path |-> path]

resolve_path(path) ==
    IF ~path.abs /\ path.parts = <<>> THEN ReturnedPath(path)
    ELSE IF path.abs THEN ReturnedPath(path)
    ELSE LET resolved_path == normpath(Cwd \o path.parts)
             workspace_abs == normpath(Cwd)
             resolved_abs == normpath(resolved_path)
         IN  IF ~startswith(PathString(resolved_abs), PathString(workspace_abs))
             THEN Raised
             ELSE ReturnedPath([abs |-> TRUE, parts |-> resolved_path])

InitPath ==
    /\ relative_path \in PathArgs
    /\ resolved = NotResolved
    /\ InitStore
    /\ InitTurn
    /\ IdleFs
    /\ IdleEditor
    /\ IdleContext
    /\ IdleRank
    /\ response = <<>>
    /\ parsed = NotParsed
    /\ IdleSplit

ResolvePath ==
    /\ ~resolved.made
    /\ resolved' = resolve_path(relative_path)
    /\ UNCHANGED <<relative_path, parseVars, storeVars, turnVars, fsVars, editorVars, ctxVars,
                   rankVars>>

NextPath == ResolvePath

SpecPath == InitPath /\ [][NextPath]_vars

\* the invocations of each block on its own, one after the other
RECURSIVE EachAlone(_)
EachAlone(matches) ==
    IF matches = <<>> THEN <<>>
    ELSE parse_tools(Block(Head(matches))) \o EachAlone(Tail(matches))

\* C23: parse_tools raises for no text: it returns a list for every one.  A
\* block whose parse fails takes nothing but its own invocation away: the
\* list holds at most one invocation for each matched block, and it is the
\* invocations the blocks yield one by one, in their order.
C23_ParseNeverRaises ==
    /\ ~parsed.raised
    /\ parsed.returned =>
          /\ Len(parsed.tools) <= Len(FindAll(response, 1))
          /\ parsed.tools = EachAlone(FindAll(response, 1))
          /\ \A i \in 1..Len(parsed.tools) : Has(parsed.tools[i], "name")

\* the parse of the first block raised inside, the second block's invocation
\* was returned
C23_Witness ==
    /\ parsed.returned
    /\ Len(FindAll(response, 1)) = 2
    /\ _parse_tool_block(FindAll(response, 1)[1]) = ParseRaised
    /\ Len(parsed.tools) = 1
    /\ parsed.tools[1]["name"] = T("read_file")

\* a key: value line at the left margin that is neither the name line nor
\* the args line
IsTopLevelKeyLine(l) ==
    /\ l.ind = 0
    /\ Len(l.segs) >= 2
    /\ l.segs[1] \notin {"name", "args", "FENCEtool", "FENCE"}

\* C26: for a text of one tool block that yields an invocation, every
\* top-level key: value line of the block other than the name line and the
\* args line has its key in the invocation's args, whether the line stands
\* before the args: line or after it.
C26_TopLevelKeysInArgs ==
    (parsed.returned /\ Len(FindAll(response, 1)) = 1 /\ Len(parsed.tools) = 1) =>
        \A i \in 1..Len(FindAll(response, 1)[1]) :
            IsTopLevelKeyLine(FindAll(response, 1)[1][i]) =>
                Has(Get(parsed.tools[1], "args", EmptyDict),
                    FindAll(response, 1)[1][i].segs[1])

\* a key: value line nested under the args: line at position a of the block
IsNestedUnder(block, a, i) ==
    /\ i > a
    /\ block[i].ind > 0
    /\ Len(block[i].segs) = 2
    /\ block[i].segs[1] \notin {"name", "args"}

\* the value an argument has when its text is read as the sentence says
ReadValue(value) ==
    IF JsonLoads(value).ok THEN JsonLoads(value).val
    ELSE IF Unquote(value) # value THEN Unquote(value)
    ELSE value

\* C27: for a text whose one block has a name line, an empty args: line
\* and nested key: value lines under it, the value of each argument (of the
\* last line that gives it) is the JSON literal its text decodes to, its
\* text without the surrounding quotes when it is a quoted string, and its
\* raw text otherwise.
C27_NestedValuesDecoded ==
    (parsed.returned /\ Len(FindAll(response, 1)) = 1 /\ Len(parsed.tools) = 1) =>
        LET block == FindAll(response, 1)[1]
            args == Get(parsed.tools[1], "args", EmptyDict)
        IN  \A a \in 1..Len(block), i \in 1..Len(block) :
                ( /\ block[a] = ArgsLine
                  /\ \A b \in (a + 1)..Len(block) : block[b].segs[1] # "args"
                  /\ IsNestedUnder(block, a, i)
                  /\ ~JsonLoads(Tail(block[i].segs)).raised
                  /\ \A j \in (i + 1)..Len(block) :
                        block[j].segs[1] # block[i].segs[1]
                  /\ Get(parsed.tools[1], "name", <<>>) # T("search_content") )
                => /\ Has(args, block[i].segs[1])
                   /\ args[block[i].segs[1]] = ReadValue(Tail(block[i].segs))

(***************************************************************************)
(* Properties of resolve_path (SpecPath).                                  *)
(***************************************************************************)
\* where a path lies: a relative path is taken from the working directory
Located(path) == IF path.abs THEN normpath(path.parts) ELSE normpath(Cwd \o path.parts)

\* inside the workspace: the workspace root or below it, component by component
InsideWorkspace(parts) ==
    /\ Len(parts) >= Len(Cwd)
    /\ SubSeq(parts, 1, Len(Cwd)) = Cwd

\* C11: whatever resolve_path returns lies inside the workspace root.
C11_ResolvedInsideWorkspace ==
    (resolved.made /\ ~resolved.raised) => InsideWorkspace(Located(resolved.path))

(***************************************************************************)
(* SpecFs: the file tools of ToolManager (tools.py) on a small filesystem. *)
(* A path holds nothing, a file with its content, or a directory.  A       *)
(* content is its lines (content.split at the newlines): the empty string  *)
(* is one empty line.  Every path has the sibling safe_write_file writes   *)
(* first (utils.py 127).  Directories have no entries in this filesystem.  *)
(***************************************************************************)
MaxFsOps == 3       \* tool calls in a behaviour
MaxChanges == 2     \* changes in one edit_file call

InsidePath == "a.txt"
OutsidePath == "../o.txt"
Targets == {InsidePath, OutsidePath}
TmpOf(path) == IF path = InsidePath THEN "a.txt.tmp" ELSE "../o.txt.tmp"
AllPaths == Targets \cup {TmpOf(path) : path \in Targets}

Absent == [kind |-> "absent", content |-> <<>>]
File(content) == [kind |-> "file", content |-> content]
Dir == [kind |-> "dir", content |-> <<>>]

EmptyContent == <<"">>
WriteContents == {EmptyContent, <<"X">>, <<"l1", "l2">>}

exists(fs, path) == fs[path].kind # "absent"
is_file(fs, path) == fs[path].kind = "file"
is_dir(fs, path) == fs[path].kind = "dir"

\* utils.safe_read_file: None unless the path is a file; the files here are
\* text files below the size limit
NoContent == [none |-> TRUE, text |-> <<>>]
SomeContent(text) == [none |-> FALSE, text |-> text]

safe_read_file(fs, path) ==
    IF ~exists(fs, path) \/ ~is_file(fs, path) THEN NoContent
    ELSE SomeContent(fs[path].content)

\* utils.safe_write_file: the content goes to the sibling, which then replaces
\* the path; replacing a directory raises and the sibling stays
safe_write_file(fs, path, content) ==
    LET written == [fs EXCEPT ![TmpOf(path)] = File(content)]
    IN  IF is_dir(fs, path)
        THEN [success |-> FALSE, files |-> written]
        ELSE [success |-> TRUE,
              files |-> [written EXCEPT ![path] = File(content), ![TmpOf(path)] = Absent]]

\* utils.create_diff is empty exactly when the two contents are equal
create_diff(old_content, new_content) == old_content # new_content

Report(text, fs) == [report |-> text, files |-> fs]

_read_file(fs, path) ==
    IF ~exists(fs, path) THEN Report("File not found", fs)
    ELSE IF ~is_file(fs, path) THEN Report("Path is not a file", fs)
    ELSE Report("File:", fs)

_write_file(fs, path, content, diffs) ==
    LET old_content == safe_read_file(fs, path)
        out == safe_write_file(fs, path, content)
    IN  IF exists(fs, path) /\ ~old_content.none /\ old_content.text # EmptyContent
           /\ diffs /\ create_diff(old_content.text, content)
        THEN Report("File exists. Diff: File written successfully.", fs)
        ELSE IF out.success THEN Report("File written successfully", out.files)
        ELSE Report("Failed to write file", out.files)

\* a change of edit_file, with the defaults change.get gives a missing key
Change(type, line, text, old_text, new_text) ==
    [type |-> type, line |-> line, text |-> text, old_text |-> old_text,
     new_text |-> new_text]
ReplaceLine(line, text) == Change("replace_line", line, text, "", "")
InsertLine(line, text) == Change("insert_line", line, text, "", "")
DeleteLine(line) == Change("delete_line", line, "", "", "")
ReplaceText(old_text, new_text) == Change("replace_text", 1, "", old_text, new_text)

ChangeSet == { ReplaceLine(2, "X"), InsertLine(1, "Y"), DeleteLine(1),
               ReplaceText("l2", "Y") }
ChangeLists == SeqsUpTo(ChangeSet, MaxChanges)

\* '\n'.join(lines) read as lines again: no line at all is the empty string
Join(lines) == IF lines = <<>> THEN EmptyContent ELSE lines

\* str.replace, for an old_text that is the whole text of a line
Replace(content, old_text, new_text) ==
    [i \in 1..Len(content) |-> IF content[i] = old_text THEN new_text ELSE content[i]]

\* the body of the loop of _apply_changes (tools.py 168-192); st holds the two
\* locals content and lines, and replace_text starts again from content
ApplyChange(st, change) ==
    LET line_num == change.line - 1
        lines == st.lines
    IN  IF change.type = "replace_line"
        THEN IF 0 <= line_num /\ line_num < Len(lines)
             THEN [st EXCEPT !.lines = [lines EXCEPT ![line_num + 1] = change.text]]
             ELSE st
        ELSE IF change.type = "insert_line"
        THEN IF 0 <= line_num /\ line_num <= Len(lines)
             THEN [st EXCEPT !.lines = SubSeq(lines, 1, line_num) \o <<change.text>>
                                       \o SubSeq(lines, line_num + 1, Len(lines))]
             ELSE st
        ELSE IF change.type = "delete_line"
        THEN IF 0 <= line_num /\ line_num < Len(lines)
             THEN [st EXCEPT !.lines = SubSeq(lines, 1, line_num)
                                       \o SubSeq(lines, line_num + 2, Len(lines))]
             ELSE st
        ELSE IF change.type = "replace_text"
        THEN LET replaced == Replace(st.content, change.old_text, change.new_text)
             IN  [content |-> replaced, lines |-> replaced]
        ELSE st

RECURSIVE ApplyChanges(_, _)
ApplyChanges(st, changes) ==
    IF changes = <<>> THEN st
    ELSE ApplyChanges(ApplyChange(st, Head(changes)), Tail(changes))

_apply_changes(content, changes) ==
    Join(ApplyChanges([content |-> content, lines |-> content], changes).lines)

_edit_file(fs, path, changes, diffs) ==
    LET current_content == safe_read_file(fs, path)
        new_content == _apply_changes(current_content.text, changes)
        out == safe_write_file(fs, path, new_content)
    IN  IF changes = <<>> THEN Report("Error: No changes provided", fs)
        ELSE IF current_content.none THEN Report("Could not read file", fs)
        ELSE IF diffs /\ create_diff(current_content.text, new_content)
        THEN Report("Changes to: File updated successfully.", fs)
        ELSE IF out.success THEN Report("File updated successfully", out.files)
        ELSE Report("Failed to update file", out.files)

_delete_file(fs, path) ==
    IF ~exists(fs, path) THEN Report("File not found", fs)
    ELSE IF is_file(fs, path) THEN Report("File deleted", [fs EXCEPT ![path] = Absent])
    ELSE Report("Directory deleted", [fs EXCEPT ![path] = Absent])

\* mkdir(parents=True, exist_ok=True) raises on an existing file
_create_directory(fs, path) ==
    IF is_file(fs, path) THEN Report("Error creating directory", fs)
    ELSE Report("Directory created", [fs EXCEPT ![path] = Dir])

\* shutil.move to a destination that is not an existing directory: a rename,
\* which fails for a directory onto a file, as does the copy tried after it
_move_file(fs, source, destination) ==
    IF ~exists(fs, source) THEN Report("Source file not found", fs)
    ELSE IF source = destination THEN Report("Moved", fs)
    ELSE IF is_dir(fs, source) /\ is_file(fs, destination)
    THEN Report("Error moving file", fs)
    ELSE Report("Moved", [fs EXCEPT ![destination] = fs[source], ![source] = Absent])

\* shutil.copy2 of a file (onto itself: SameFileError), shutil.copytree of a
\* directory (onto anything that exists: FileExistsError)
_copy_file(fs, source, destination) ==
    IF ~exists(fs, source) THEN Report("Source file not found", fs)
    ELSE IF is_file(fs, source)
    THEN IF source = destination THEN Report("Error copying file", fs)
         ELSE Report("Copied", [fs EXCEPT ![destination] = fs[source]])
    ELSE IF exists(fs, destination) THEN Report("Error copying file", fs)
    ELSE Report("Copied", [fs EXCEPT ![destination] = Dir])

\* the call just made: its arguments, its report and the files before it
Call(name, path, destination, content, changes, out) ==
    /\ fs_ops < MaxFsOps
    /\ fs_ops' = fs_ops + 1
    /\ files' = out.files
    /\ last_tool' = [made |-> TRUE, name |-> name, path |-> path,
                     destination |-> destination, content |-> content,
                     changes |-> changes, report |-> out.report, before |-> files]
    /\ UNCHANGED <<show_diffs, pathVars, parseVars, storeVars, turnVars, editorVars, ctxVars,
                   rankVars>>

ReadFile(path) ==
    Call("read_file", path, path, <<>>, <<>>, _read_file(files, path))

WriteFile(path, content) ==
    Call("write_file", path, path, content, <<>>,
         _write_file(files, path, content, show_diffs))

EditFile(path, changes) ==
    Call("edit_file", path, path, <<>>, changes,
         _edit_file(files, path, changes, show_diffs))

DeleteFile(path) ==
    Call("delete_file", path, path, <<>>, <<>>, _delete_file(files, path))

CreateDirectory(path) ==
    Call("create_directory", path, path, <<>>, <<>>, _create_directory(files, path))

MoveFile(source, destination) ==
    /\ ~is_dir(files, destination) \/ source = destination
    /\ Call("move_file", source, destination, <<>>, <<>>,
            _move_file(files, source, destination))

CopyFile(source, destination) ==
    /\ ~is_dir(files, destination) \/ source = destination
    /\ Call("copy_file", source, destination, <<>>, <<>>,
            _copy_file(files, source, destination))

InitFiles ==
    [path \in AllPaths |->
        IF path = InsidePath THEN File(<<"l1", "l2">>)
        ELSE IF path = OutsidePath THEN File(<<"l2">>)
        ELSE Absent]

InitFs ==
    /\ files = InitFiles
    /\ show_diffs \in BOOLEAN
    /\ last_tool = NoTool
    /\ fs_ops = 0
    /\ IdlePath
    /\ IdleEditor
    /\ IdleContext
    /\ IdleRank
    /\ InitStore
    /\ InitTurn
    /\ response = <<>>
    /\ parsed = NotParsed
    /\ IdleSplit

NextFs ==
    \/ \E path \in Targets : ReadFile(path)
    \/ \E path \in Targets, content \in WriteContents : WriteFile(path, content)
    \/ \E path \in Targets, changes \in ChangeLists : EditFile(path, changes)
    \/ \E path \in Targets : DeleteFile(path)
    \/ \E path \in Targets : CreateDirectory(path)
    \/ \E source \in Targets, destination \in Targets : MoveFile(source, destination)
    \/ \E source \in Targets, destination \in Targets : CopyFile(source, destination)

SpecFs == InitFs /\ [][NextFs]_vars

(***************************************************************************)
(* Properties of the file tools (SpecFs).                                  *)
(***************************************************************************)
ErrorReports ==
    { "File not found", "Path is not a file", "Failed to write file",
      "Error: No changes provided", "Could not read file", "Failed to update file",
      "Error creating directory", "Source file not found", "Error moving file",
      "Error copying file" }

\* C12: a file tool called with a path outside the workspace root reports an
\* error and leaves every file as it was.
C12_OutsidePathRefused ==
    (last_tool.made /\ OutsidePath \in {last_tool.path, last_tool.destination}) =>
        /\ last_tool.report \in ErrorReports
        /\ files = last_tool.before

\* the reports of write_file that say "File written successfully"
WrittenReports ==
    { "File written successfully", "File exists. Diff: File written successfully." }

\* C14: when write_file reports success the path holds the given content.
C14_WrittenContentOnDisk ==
    (last_tool.made /\ last_tool.name = "write_file"
        /\ last_tool.report \in WrittenReports) =>
            files[last_tool.path] = File(last_tool.content)

\* the changes applied one after the other, each to the lines as they then are
RefApplyChange(lines, change) ==
    IF change.type = "replace_text"
    THEN Replace(lines, change.old_text, change.new_text)
    ELSE ApplyChange([content |-> lines, lines |-> lines], change).lines

\* a change is valid when its line exists (or, to insert, is the line after
\* the last)
ValidChange(lines, change) ==
    IF change.type \in {"replace_line", "delete_line"}
    THEN 1 <= change.line /\ change.line <= Len(lines)
    ELSE IF change.type = "insert_line"
    THEN 1 <= change.line /\ change.line <= Len(lines) + 1
    ELSE TRUE

RECURSIVE ValidChanges(_, _)
ValidChanges(lines, changes) ==
    \/ changes = <<>>
    \/ /\ ValidChange(lines, Head(changes))
       /\ ValidChanges(RefApplyChange(lines, Head(changes)), Tail(changes))

RECURSIVE RefApply(_, _)
RefApply(lines, changes) ==
    IF changes = <<>> THEN lines
    ELSE RefApply(RefApplyChange(lines, Head(changes)), Tail(changes))

UpdatedReports ==
    { "File updated successfully", "Changes to: File updated successfully." }

\* C15: with show_diffs at its default, edit_file on an existing file with a
\* non-empty list of valid changes reports that the file was updated, and the
\* file then holds the content with the changes applied.
C15_EditApplied ==
    (last_tool.made /\ last_tool.name = "edit_file" /\ show_diffs
        /\ is_file(last_tool.before, last_tool.path)
        /\ last_tool.changes # <<>>
        /\ ValidChanges(last_tool.before[last_tool.path].content, last_tool.changes)) =>
            /\ last_tool.report \in UpdatedReports
            /\ files[last_tool.path]
                 = File(Join(RefApply(last_tool.before[last_tool.path].content,
                                      last_tool.changes)))

(***************************************************************************)
(* Properties of delete_chat (SpecStore).                                  *)
(***************************************************************************)
\* C13 as stated: after delete_chat(id) no record of that id is persisted, a
\* current session of that id is gone, and a current session of another id
\* is as it was.
C13_DeleteClearsCurrent ==
    last_delete.made =>
        /\ ~Has(chats_dir, last_delete.id)
        /\ (last_delete.current # None /\ last_delete.current.id = last_delete.id)
              => current_chat = None
        /\ (last_delete.current # None /\ last_delete.current.id # last_delete.id)
              => current_chat = last_delete.current

\* C13 amended: after delete_chat(id) no record of that id is persisted; when
\* a record of that id was persisted and the current session had that id,
\* there is no current session any more; in every other case the current
\* session is as it was.
C13_DeleteRemovesRecord ==
    last_delete.made =>
        /\ ~Has(chats_dir, last_delete.id)
        /\ IF last_delete.existed /\ last_delete.current # None
              /\ last_delete.current.id = last_delete.id
           THEN current_chat = None
           ELSE current_chat = last_delete.current

\* the current session, saved with its messages, has been deleted
C13_Witness ==
    /\ last_delete.made
    /\ last_delete.existed
    /\ last_delete.current # None
    /\ last_delete.current.id = last_delete.id
    /\ last_delete.current.messages # <<>>
    /\ current_chat = None

(***************************************************************************)
(* SpecEditor: CodeEditor (editor.py).  A content is its lines, as in      *)
(* SpecFs; the text of an edit is its lines too (a text with newlines in   *)
(* it becomes several lines once the content is split again).              *)
(***************************************************************************)
MaxEdits == 3       \* editor operations in a behaviour
MaxLine == 4        \* line numbers an edit may name (0 is EditOperation's falsy line)

LoadedContent == <<"L1", "L2", "L3">>
EditTexts == { <<"N">>, <<"A", "B">> }
EditTypes == { "replace_line", "insert_line", "delete_line", "replace_text",
               "replace_block", "insert_block", "delete_block" }

EditOperation(type, line, start_line, end_line, text, old_text, new_text) ==
    [type |-> type, line |-> line, start_line |-> start_line, end_line |-> end_line,
     text |-> text, old_text |-> old_text, new_text |-> new_text]

\* the edits tried: every type, on lines inside and outside the content
Edits ==
    { EditOperation(type, line, 0, 0, text, "", "") :
        type \in {"replace_line", "insert_line", "insert_block"},
        line \in 0..MaxLine, text \in EditTexts }
    \cup { EditOperation("delete_line", line, 0, 0, <<>>, "", "") : line \in 0..MaxLine }
    \cup { EditOperation("replace_text", 0, 0, 0, <<>>, old, "N") : old \in {"L2", "Z"} }
    \cup { EditOperation("replace_block", 0, 1, 2, <<"N">>, "", ""),
           EditOperation("delete_block", 0, 2, 3, <<>>, "", ""),
           EditOperation("delete_block", 0, 2, 1, <<>>, "", "") }

RaisedEdit == [raised |-> TRUE, lines |-> <<>>]
EditedTo(lines) == [raised |-> FALSE, lines |-> Join(lines)]

\* lines[a:b] = text, on 0-based slice bounds
Splice(lines, a, b, text) ==
    SubSeq(lines, 1, a) \o text \o SubSeq(lines, b + 1, Len(lines))

\* _apply_edit_to_content (editor.py 137-188): the new content, or the
\* ValueError it raises
_apply_edit_to_content(content, edit) ==
    LET lines == content
        n == Len(content)
    IN  IF edit.type = "replace_line"
        THEN IF edit.line # 0 /\ 1 <= edit.line /\ edit.line <= n
             THEN EditedTo(Splice(lines, edit.line - 1, edit.line, edit.text))
             ELSE RaisedEdit
        ELSE IF edit.type \in {"insert_line", "insert_block"}
        THEN IF edit.line # 0 /\ 0 <= edit.line /\ edit.line <= n
             THEN EditedTo(Splice(lines, edit.line, edit.line, edit.text))
             ELSE RaisedEdit
        ELSE IF edit.type = "delete_line"
        THEN IF edit.line # 0 /\ 1 <= edit.line /\ edit.line <= n
             THEN EditedTo(Splice(lines, edit.line - 1, edit.line, <<>>))
             ELSE RaisedEdit
        ELSE IF edit.type = "replace_text"
        THEN IF \E i \in 1..n : content[i] = edit.old_text
             THEN EditedTo(Replace(content, edit.old_text, edit.new_text))
             ELSE RaisedEdit
        ELSE IF edit.type \in {"replace_block", "delete_block"}
        THEN IF edit.start_line # 0 /\ edit.end_line # 0 /\ 1 <= edit.start_line
                /\ edit.start_line <= edit.end_line /\ edit.end_line <= n
             THEN EditedTo(Splice(lines, edit.start_line - 1, edit.end_line,
                                  IF edit.type = "delete_block" THEN <<>> ELSE edit.text))
             ELSE RaisedEdit
        ELSE EditedTo(lines)

HistoryEntry(old_content, new_content) ==
    [old_content |-> old_content, new_content |-> new_content]

Loaded(lines) == [loaded |-> TRUE, lines |-> lines]

EditorStep ==
    /\ ed_ops < MaxEdits
    /\ ed_ops' = ed_ops + 1
    /\ UNCHANGED <<pathVars, fsVars, parseVars, storeVars, turnVars, ctxVars,
                   rankVars>>

\* load_file of a text file that exists (editor.py 50-69)
LoadFile ==
    /\ EditorStep
    /\ editor_content' = Loaded(LoadedContent)
    /\ editor_history' = <<>>
    /\ trail' = <<>>
    /\ last_op' = [made |-> TRUE, kind |-> "load_file", edit |-> <<>>, returned |-> TRUE,
                   before |-> editor_content.lines, expected |-> <<>>]

\* apply_edit (editor.py 102-123): a raised ValueError and an edit that
\* changes nothing both return False
ApplyEdit(edit) ==
    /\ EditorStep
    /\ editor_content.loaded
    /\ LET out == _apply_edit_to_content(editor_content.lines, edit)
           changed == ~out.raised /\ out.lines # editor_content.lines
       IN  /\ editor_content' = IF changed THEN Loaded(out.lines) ELSE editor_content
           /\ editor_history' =
                 IF changed
                 THEN Append(editor_history, HistoryEntry(editor_content.lines, out.lines))
                 ELSE editor_history
           /\ trail' = IF changed THEN Append(trail, editor_content.lines) ELSE trail
           /\ last_op' = [made |-> TRUE, kind |-> "apply_edit", edit |-> edit,
                          returned |-> changed, before |-> editor_content.lines,
                          expected |-> <<>>]

\* replace_text (editor.py 281-301), for a pattern that is the whole text of a
\* line: current_content is assigned before the entry is made, so the entry's
\* old_content is the new content
ReplaceInContent(pattern, replacement) ==
    /\ EditorStep
    /\ editor_content.loaded
    /\ LET count == Cardinality({i \in 1..Len(editor_content.lines) :
                                    editor_content.lines[i] = pattern})
           new_content == Replace(editor_content.lines, pattern, replacement)
       IN  /\ editor_content' = IF count > 0 THEN Loaded(new_content) ELSE editor_content
           /\ editor_history' =
                 IF count > 0
                 THEN Append(editor_history, HistoryEntry(new_content, new_content))
                 ELSE editor_history
           /\ trail' = IF count > 0 THEN Append(trail, editor_content.lines) ELSE trail
           /\ last_op' = [made |-> TRUE, kind |-> "replace_text", edit |-> <<>>,
                          returned |-> count > 0, before |-> editor_content.lines,
                          expected |-> <<>>]

\* undo (editor.py 303-310)
Undo ==
    /\ EditorStep
    /\ IF editor_history = <<>>
       THEN /\ UNCHANGED <<editor_content, editor_history>>
            /\ last_op' = [made |-> TRUE, kind |-> "undo", edit |-> <<>>,
                           returned |-> FALSE, before |-> editor_content.lines,
                           expected |-> trail]
       ELSE /\ editor_content' = Loaded(editor_history[Len(editor_history)].old_content)
            /\ editor_history' = SubSeq(editor_history, 1, Len(editor_history) - 1)
            /\ last_op' = [made |-> TRUE, kind |-> "undo", edit |-> <<>>,
                           returned |-> TRUE, before |-> editor_content.lines,
                           expected |-> trail]
    /\ trail' = IF trail = <<>> THEN trail ELSE SubSeq(trail, 1, Len(trail) - 1)

InitEditor ==
    /\ editor_content = Loaded(LoadedContent)
    /\ editor_history = <<>>
    /\ trail = <<>>
    /\ last_op = NoOp
    /\ ed_ops = 0
    /\ IdlePath
    /\ IdleFs
    /\ IdleContext
    /\ IdleRank
    /\ InitStore
    /\ InitTurn
    /\ response = <<>>
    /\ parsed = NotParsed
    /\ IdleSplit

NextEditor ==
    \/ LoadFile
    \/ \E edit \in Edits : ApplyEdit(edit)
    \/ \E pattern \in {"L1", "N", "Z"} : ReplaceInContent(pattern, "A")
    \/ Undo

SpecEditor == InitEditor /\ [][NextEditor]_vars

(***************************************************************************)
(* Properties of CodeEditor (SpecEditor).                                  *)
(***************************************************************************)
\* C16: when there is a successful edit not yet undone, undo returns true and
\* the content is again what it was right before the last such edit; once
\* every successful edit has been undone the content is the loaded one.
C16_UndoRestores ==
    (last_op.made /\ last_op.kind = "undo" /\ last_op.expected # <<>>) =>
        /\ last_op.returned
        /\ editor_content.lines = last_op.expected[Len(last_op.expected)]
        /\ trail = <<>> => editor_content.lines = LoadedContent

\* C17: an insert_line or insert_block with line n, 1 <= n <= L, puts the
\* first inserted line at line n, the former line n right after the inserted
\* lines, and the line count grows by the number of inserted lines.
C17_InsertAtLine ==
    (last_op.made /\ last_op.kind = "apply_edit"
        /\ last_op.edit.type \in {"insert_line", "insert_block"}
        /\ 1 <= last_op.edit.line /\ last_op.edit.line <= Len(last_op.before)) =>
            LET n == last_op.edit.line
                k == Len(last_op.edit.text)
                lines == editor_content.lines
            IN  /\ last_op.returned
                /\ Len(lines) = Len(last_op.before) + k
                /\ SubSeq(lines, n, n + k - 1) = last_op.edit.text
                /\ lines[n + k] = last_op.before[n]

(***************************************************************************)
(* SpecContext: CodebaseContext (codebase_context.py) over a tree of files *)
(* that changes between its operations.  A path is its names and a name    *)
(* its characters, so that fnmatch and the `in` test of _should_exclude    *)
(* are matches on the characters of str(path).  A file is its size in      *)
(* bytes, the first 500 characters of its text (head), what follows them   *)
(* (rest), whether its bytes decode as UTF-8 and whether its first 1024    *)
(* bytes hold a NUL.  size_formatted, modified and lines of a CodebaseFile *)
(* are left out.                                                           *)
(*                                                                         *)
(* The settings are read from config.codebase.  config.py declares no such *)
(* section (Config has api, ui, mode and initialized only), so they are    *)
(* taken as the readers in codebase_context.py and core.py use them: a     *)
(* depth, a list of exclude patterns, a list of extensions, a cache        *)
(* duration in seconds, and the switches include_context and               *)
(* auto_refresh_context.                                                   *)
(***************************************************************************)
MaxCtxOps == 3      \* steps of a run

\* safe_read_file(file_path, max_size=1024 * 10)
max_size == 10240
\* config.codebase.context_depth
context_depth == 1
\* config.codebase.context_cache_duration, in seconds
context_cache_duration == 2
\* time.time() when the CodebaseContext is constructed
StartTime == 3

A_py == <<"a", ".", "p", "y">>
B_py == <<"b", ".", "p", "y">>
C_PY == <<"c", ".", "P", "Y">>
M_py == <<"m", ".", "p", "y">>
A_t_py == <<"a", "_", "t", ".", "p", "y">>
X_dat == <<"x", ".", "d", "a", "t">>
Suffix_py == <<".", "p", "y">>
Suffix_dat == <<".", "d", "a", "t">>

\* get_project_root: the repository is /p
Root == [none |-> FALSE, parts |-> << <<"p">> >>]

\* the places of the tree where a file may be: a.py, d/b.py, d/e/c.PY,
\* nm/m.py, a_t.py, x.dat, u/b.py
TreePaths ==
    { <<A_py>>, << <<"d">>, B_py >>, << <<"d">>, <<"e">>, C_PY >>,
      << <<"n", "m">>, M_py >>, <<A_t_py>>, <<X_dat>>, << <<"u">>, B_py >> }

\* the directories the process may not list: iterdir raises PermissionError
Unreadable == { << <<"u">> >> }

\* the places a write goes to: a.py, d/b.py, x.dat
WritePaths == { <<A_py>>, << <<"d">>, B_py >>, <<X_dat>> }

\* config.codebase.exclude_patterns: "nm" and "*_t.py"
exclude_patterns == { <<"n", "m">>, <<"*", "_", "t", ".", "p", "y">> }

\* config.codebase.context_file_types
FileTypeSettings == { {Suffix_py}, {Suffix_py, Suffix_dat} }

Missing == [present |-> FALSE, size |-> 0, head |-> <<>>, rest |-> "", utf8 |-> TRUE,
            nul |-> FALSE]
TextFile(size, head, rest) ==
    [present |-> TRUE, size |-> size, head |-> head, rest |-> rest, utf8 |-> TRUE,
     nul |-> FALSE]
BinaryFile(size) ==
    [present |-> TRUE, size |-> size, head |-> <<>>, rest |-> "", utf8 |-> FALSE,
     nul |-> TRUE]

\* what a write may leave at a path
FileKinds ==
    { TextFile(max_size - 1, <<"b">>, "r1"),
      TextFile(max_size, <<"h">>, "r1"),
      TextFile(max_size + 1, <<"h">>, "r2"),
      BinaryFile(8) }

\* str in str
Contains(str, sub) ==
    \E i \in 0..(Len(str) - Len(sub)) : SubSeq(str, i + 1, i + Len(sub)) = sub

\* fnmatch.fnmatch for patterns of plain characters and "*"
RECURSIVE fnmatch(_, _)
fnmatch(name, pat) ==
    IF pat = <<>> THEN name = <<>>
    ELSE IF Head(pat) = "*"
         THEN \E k \in 0..Len(name) : fnmatch(SubSeq(name, k + 1, Len(name)), Tail(pat))
    ELSE /\ name # <<>>
         /\ Head(name) = Head(pat)
         /\ fnmatch(Tail(name), Tail(pat))

\* str.lower
lower(str) ==
    [i \in DOMAIN str |->
        IF str[i] = "P" THEN "p" ELSE IF str[i] = "Y" THEN "y" ELSE str[i]]

\* Path.suffix of a file name
suffix(name) ==
    LET dots == {i \in 1..Len(name) : name[i] = "."}
    IN  IF dots = {} THEN <<>>
        ELSE LET i == CHOOSE d \in dots : \A e \in dots : e <= d
             IN  IF i = 1 \/ i = Len(name) THEN <<>> ELSE SubSeq(name, i, Len(name))

\* str(relative_path): the names joined by "/"
RelString(path) == Tail(PathString(path))

\* the paths under a directory that hold a file
Below(fs, directory) ==
    {p \in DOMAIN fs : /\ fs[p].present
                       /\ Len(p) > Len(directory)
                       /\ SubSeq(p, 1, Len(directory)) = directory}

\* Path.iterdir
iterdir(fs, directory) == {SubSeq(p, 1, Len(directory) + 1) : p \in Below(fs, directory)}

item_is_file(fs, item) == item \in DOMAIN fs /\ fs[item].present
item_is_dir(fs, item) == Below(fs, item) # {}

\* the text extensions of is_text_file that the names of the tree can have
text_extensions == {Suffix_py, <<".", "m", "d">>, <<".", "t", "x", "t">>}

is_text_file(file, name) ==
    IF lower(suffix(name)) \in text_extensions THEN TRUE
    ELSE IF suffix(name) = <<>> THEN ~file.nul
    ELSE FALSE

get_file_info(file, name) == [size |-> file.size, is_text |-> is_text_file(file, name)]

TooLarge == "[File too large]"
BinaryMarker == "[Binary file]"
ReadError == "[Error reading file]"
Marker(text) == [marker |-> text, head |-> <<>>, rest |-> ""]

\* safe_read_file with its max_size argument: the text read, or a marker
safe_read_file_max_ge(file, name, limit) ==
    IF file.size >= limit THEN Marker(TooLarge)
    ELSE IF ~is_text_file(file, name) THEN Marker(BinaryMarker)
    ELSE IF ~file.utf8 THEN Marker(ReadError)
    ELSE [marker |-> "", head |-> file.head, rest |-> file.rest]

safe_read_file_max(file, name, limit) ==
    IF file.size > limit THEN Marker(TooLarge)
    ELSE IF ~is_text_file(file, name) THEN Marker(BinaryMarker)
    ELSE IF ~file.utf8 THEN Marker(ReadError)
    ELSE [marker |-> "", head |-> file.head, rest |-> file.rest]

\* content[:500]
Preview(content) == [marker |-> content.marker, head |-> content.head]

_should_exclude(root, item) ==
    LET path_str == PathString(root \o item)
    IN  \E pattern \in exclude_patterns :
            fnmatch(path_str, pattern) \/ Contains(path_str, pattern)

CodebaseFile(fs, item) ==
    LET name == item[Len(item)]
        file_info == get_file_info(fs[item], name)
        content == safe_read_file_max(fs[item], name, max_size)
    IN  [relative_path |-> RelString(item),
         name |-> name,
         extension |-> lower(suffix(name)),
         size |-> file_info.size,
         is_text |-> file_info.is_text,
         content_preview |-> Preview(content)]

\* the files _add_file_to_context puts into the cache: the file or nothing
_add_file_to_context(fs, types, item) ==
    LET name == item[Len(item)]
    IN  IF lower(suffix(name)) \notin types THEN {}
        ELSE IF ~get_file_info(fs[item], name).is_text THEN {}
        ELSE {item}

\* a scan that goes down the tree whatever the depth
RECURSIVE _scan_directory_deep(_, _, _, _, _)
_scan_directory_deep(fs, root, types, directory, depth) ==
    IF directory \in Unreadable THEN {}
    ELSE UNION { IF _should_exclude(root, item) THEN {}
                 ELSE IF item_is_file(fs, item) THEN _add_file_to_context(fs, types, item)
                 ELSE IF item_is_dir(fs, item)
                      THEN _scan_directory_deep(fs, root, types, item, depth + 1)
                 ELSE {}
                 : item \in iterdir(fs, directory) }

\* the files put into the cache by the scan of a directory (123-139); the
\* PermissionError of iterdir is caught in the call for that directory, so
\* the scan of the directory above goes on with its next item
RECURSIVE _scan_directory(_, _, _, _, _)
_scan_directory(fs, root, types, directory, depth) ==
    IF depth > context_depth THEN {}
    ELSE IF directory \in Unreadable THEN {}
    ELSE UNION { IF _should_exclude(root, item) THEN {}
                 ELSE IF item_is_file(fs, item) THEN _add_file_to_context(fs, types, item)
                 ELSE IF item_is_dir(fs, item) /\ depth < context_depth
                      THEN _scan_directory(fs, root, types, item, depth + 1)
                 ELSE {}
                 : item \in iterdir(fs, directory) }

CacheOf(fs, added) ==
    [key \in {RelString(item) : item \in added} |->
        CodebaseFile(fs, CHOOSE item \in added : RelString(item) = key)]

\* the cache and last_refresh that _refresh_context leaves
Kept == [cache |-> context_cache, last_refresh |-> last_refresh, rebuilt |-> FALSE]

_refresh_context_no_clear ==
    IF project_root.none THEN Kept
    ELSE LET scanned == CacheOf(tree, _scan_directory(tree, project_root.parts,
                                                     context_file_types, <<>>, 0))
         IN  [cache |-> [key \in DOMAIN context_cache \cup DOMAIN scanned |->
                            IF key \in DOMAIN scanned THEN scanned[key]
                            ELSE context_cache[key]],
              last_refresh |-> time, rebuilt |-> TRUE]

_refresh_context ==
    IF project_root.none THEN Kept
    ELSE [cache |-> CacheOf(tree, _scan_directory(tree, project_root.parts,
                                                  context_file_types, <<>>, 0)),
          last_refresh |-> time, rebuilt |-> TRUE]

should_refresh_context_ttl_only ==
    IF ~include_context THEN FALSE
    ELSE (time - last_refresh) > context_cache_duration

should_refresh_context ==
    IF ~include_context THEN FALSE
    ELSE IF auto_refresh_context THEN TRUE
    ELSE (time - last_refresh) > context_cache_duration

CtxStep ==
    /\ ctx_ops < MaxCtxOps
    /\ ctx_ops' = ctx_ops + 1
    /\ UNCHANGED <<parseVars, storeVars, turnVars, pathVars, fsVars, editorVars,
                   rankVars>>

CtxOp(op, after, returned) ==
    [made |-> TRUE, op |-> op, at |-> time, cache |-> context_cache,
     last_refresh |-> last_refresh, fresh |-> fresh, rebuilt |-> after.rebuilt,
     returned |-> returned]

\* the part the four read operations share: nothing when the context is
\* switched off, else the refresh when should_refresh_context says so
AfterRead ==
    IF include_context /\ should_refresh_context THEN _refresh_context ELSE Kept

Leaves(op, after, returned) ==
    /\ context_cache' = after.cache
    /\ last_refresh' = after.last_refresh
    /\ fresh' = (after.rebuilt \/ fresh)
    /\ last_ctx' = CtxOp(op, after, returned)
    /\ UNCHANGED <<tree, project_root, include_context, auto_refresh_context,
                   context_file_types, time>>

\* get_context_summary (codebase_context.py 56-71): total_files, last_updated
GetContextSummary ==
    /\ CtxStep
    /\ LET after == AfterRead
       IN  Leaves("get_context_summary", after,
                  IF ~include_context THEN [empty |-> TRUE]
                  ELSE [empty |-> FALSE,
                        total_files |-> Cardinality(DOMAIN after.cache),
                        last_updated |-> after.last_refresh])

\* get_context_for_prompt (codebase_context.py 73-112): the first line of
\* the text it returns
GetContextForPrompt ==
    /\ CtxStep
    /\ LET after == AfterRead
       IN  Leaves("get_context_for_prompt", after,
                  IF ~include_context THEN ""
                  ELSE IF DOMAIN after.cache = {} THEN "No codebase context available."
                  ELSE "Codebase Context:")

\* get_file_context (codebase_context.py 262-270)
GetFileContext(file_path) ==
    /\ CtxStep
    /\ LET after == AfterRead
       IN  Leaves("get_file_context", after,
                  IF ~include_context THEN None
                  ELSE IF file_path \in DOMAIN after.cache THEN after.cache[file_path]
                  ELSE None)

\* search_context (codebase_context.py 272-290): the entries found
SearchContext(query) ==
    /\ CtxStep
    /\ LET after == AfterRead
       IN  Leaves("search_context", after,
                  IF ~include_context THEN {}
                  ELSE {after.cache[key] : key \in
                          {k \in DOMAIN after.cache :
                              \/ Contains(lower(after.cache[k].name), lower(query))
                              \/ Contains(lower(after.cache[k].relative_path), lower(query))
                              \/ Contains(lower(after.cache[k].content_preview.head),
                                          lower(query))}})

\* force_refresh (codebase_context.py 258-260)
ForceRefresh ==
    /\ CtxStep
    /\ Leaves("force_refresh", _refresh_context, None)

Outside ==
    /\ CtxStep
    /\ last_ctx' = NoCtx

\* time passes between two operations
TimePasses(seconds) ==
    /\ Outside
    /\ time' = time + seconds
    /\ UNCHANGED <<tree, project_root, include_context, auto_refresh_context,
                   context_file_types, context_cache, last_refresh, fresh>>

\* a file of the tree is written, by a tool or by another program
TreeWrite(path, file) ==
    /\ Outside
    /\ tree[path] # file
    /\ tree' = [tree EXCEPT ![path] = file]
    /\ fresh' = FALSE
    /\ UNCHANGED <<project_root, include_context, auto_refresh_context,
                   context_file_types, context_cache, last_refresh, time>>

\* a file of the tree is removed
TreeRemove(path) ==
    /\ Outside
    /\ tree[path].present
    /\ tree' = [tree EXCEPT ![path] = Missing]
    /\ fresh' = FALSE
    /\ UNCHANGED <<project_root, include_context, auto_refresh_context,
                   context_file_types, context_cache, last_refresh, time>>

\* /context enable, /context disable (core.py 771-779)
ContextEnable ==
    /\ Outside
    /\ include_context' = TRUE
    /\ UNCHANGED <<tree, project_root, auto_refresh_context, context_file_types,
                   context_cache, last_refresh, time, fresh>>

ContextDisable ==
    /\ Outside
    /\ include_context' = FALSE
    /\ UNCHANGED <<tree, project_root, auto_refresh_context, context_file_types,
                   context_cache, last_refresh, time, fresh>>

InitTree ==
    [path \in TreePaths |->
        IF path = <<A_py>> THEN TextFile(max_size, <<"h">>, "r1")
        ELSE IF path = <<X_dat>> THEN Missing
        ELSE TextFile(max_size - 1, <<"b">>, "r1")]

InitContext ==
    /\ tree = InitTree
    /\ project_root \in {NoRoot, Root}
    /\ include_context = TRUE
    /\ auto_refresh_context \in BOOLEAN
    /\ context_file_types \in FileTypeSettings
    /\ context_cache = <<>>
    /\ last_refresh = 0
    /\ time = StartTime
    /\ fresh = FALSE
    /\ last_ctx = NoCtx
    /\ ctx_ops = 0
    /\ IdlePath
    /\ IdleFs
    /\ IdleEditor
    /\ IdleRank
    /\ InitStore
    /\ InitTurn
    /\ response = <<>>
    /\ parsed = NotParsed
    /\ IdleSplit

NextContext ==
    \/ GetContextSummary
    \/ GetContextForPrompt
    \/ \E file_path \in {RelString(<<A_py>>)} : GetFileContext(file_path)
    \/ \E query \in {<<"B">>} : SearchContext(query)
    \/ ForceRefresh
    \/ \E seconds \in 1..3 : TimePasses(seconds)
    \/ \E path \in WritePaths, file \in FileKinds : TreeWrite(path, file)
    \/ \E path \in TreePaths : TreeRemove(path)
    \/ ContextEnable
    \/ ContextDisable

SpecContext == InitContext /\ [][NextContext]_vars

(***************************************************************************)
(* Properties of CodebaseContext (SpecContext).  The workspace is the tree *)
(* under the project root.                                                 *)
(***************************************************************************)
\* a file of the workspace is eligible when it lies at most context_depth
\* directories below the root, neither it nor a directory above it matches
\* an exclude pattern, its extension is one of context_file_types and it
\* passes the text check
Eligible(item) ==
    /\ ~project_root.none
    /\ tree[item].present
    /\ Len(item) - 1 <= context_depth
    /\ \A k \in 1..(Len(item) - 1) : SubSeq(item, 1, k) \notin Unreadable
    /\ \A k \in 1..Len(item) :
          \A pattern \in exclude_patterns :
              LET path_str == PathString(project_root.parts \o SubSeq(item, 1, k))
              IN  ~fnmatch(path_str, pattern) /\ ~Contains(path_str, pattern)
    /\ lower(suffix(item[Len(item)])) \in context_file_types
    /\ is_text_file(tree[item], item[Len(item)])

EligibleKeys == {RelString(item) : item \in {i \in DOMAIN tree : Eligible(i)}}

\* the operation just made was a refresh: force_refresh, or a read that
\* rebuilt the cache
Refreshed == last_ctx.made /\ (last_ctx.op = "force_refresh" \/ last_ctx.rebuilt)

\* C18: after a refresh the keys of the cache are exactly the eligible files
\* of the workspace as it is now, and when no file has changed since the
\* refresh before, the cache is the one that refresh left (same paths, same
\* previews).
C18_RefreshRebuildsEntrySet ==
    Refreshed =>
        /\ DOMAIN context_cache = EligibleKeys
        /\ last_ctx.fresh => context_cache = last_ctx.cache

\* a refresh has dropped the entry of a file that is no longer eligible and
\* kept another
C18_Witness ==
    /\ Refreshed
    /\ DOMAIN last_ctx.cache \ DOMAIN context_cache # {}
    /\ DOMAIN context_cache # {}

\* the file an entry of the cache stands for
FileOf(key) == CHOOSE item \in DOMAIN tree : RelString(item) = key

\* C19 as stated: after a refresh every entry is a file within the size
\* ceiling that passes the text check and matches no exclude pattern; an
\* eligible file of exactly max_size bytes is an entry, a file one byte
\* larger is no entry or is marked oversized.
C19_EntriesWithinCeiling ==
    Refreshed =>
        /\ \A key \in DOMAIN context_cache :
              /\ tree[FileOf(key)].present
              /\ tree[FileOf(key)].size <= max_size
              /\ is_text_file(tree[FileOf(key)], context_cache[key].name)
              /\ ~_should_exclude(project_root.parts, FileOf(key))
        /\ \A item \in DOMAIN tree :
              /\ (Eligible(item) /\ tree[item].size = max_size) =>
                    /\ RelString(item) \in DOMAIN context_cache
                    /\ context_cache[RelString(item)].content_preview.marker # TooLarge
              /\ (tree[item].present /\ tree[item].size = max_size + 1) =>
                    \/ RelString(item) \notin DOMAIN context_cache
                    \/ context_cache[RelString(item)].content_preview.marker = TooLarge

\* C19 as amended: after a refresh every entry is a file that passes the text
\* check and matches no exclude pattern, and every entry not marked oversized
\* is within the size ceiling; an eligible file of exactly max_size bytes is
\* an entry whose preview is the head of its text, an eligible file one byte
\* larger is an entry marked oversized.
C19_UnmarkedEntriesWithinCeiling ==
    Refreshed =>
        /\ \A key \in DOMAIN context_cache :
              /\ tree[FileOf(key)].present
              /\ context_cache[key].content_preview.marker # TooLarge
                    => tree[FileOf(key)].size <= max_size
              /\ is_text_file(tree[FileOf(key)], context_cache[key].name)
              /\ ~_should_exclude(project_root.parts, FileOf(key))
        /\ \A item \in DOMAIN tree :
              /\ (Eligible(item) /\ tree[item].size = max_size /\ tree[item].utf8) =>
                    /\ RelString(item) \in DOMAIN context_cache
                    /\ context_cache[RelString(item)].content_preview
                          = [marker |-> "", head |-> tree[item].head]
              /\ (Eligible(item) /\ tree[item].size = max_size + 1) =>
                    /\ RelString(item) \in DOMAIN context_cache
                    /\ context_cache[RelString(item)].content_preview.marker = TooLarge

\* a refresh has met an eligible file of exactly max_size bytes and an
\* eligible file one byte larger
C19_Witness ==
    /\ Refreshed
    /\ last_ctx.rebuilt
    /\ \E item \in DOMAIN tree : Eligible(item) /\ tree[item].size = max_size
    /\ \E item \in DOMAIN tree : Eligible(item) /\ tree[item].size = max_size + 1

\* the operation just made was one of the four reads of the cache
CacheRead ==
    /\ last_ctx.made
    /\ last_ctx.op \in {"get_context_for_prompt", "get_context_summary",
                        "search_context", "get_file_context"}

\* auto-refresh is enabled, or more than the cache duration had passed since
\* last_refresh when the read was made
DueByTime == (last_ctx.at - last_ctx.last_refresh) > context_cache_duration
Due == auto_refresh_context \/ DueByTime

\* the read has rebuilt the cache from the workspace and stamped it
RefreshPerformed ==
    /\ DOMAIN context_cache = EligibleKeys
    /\ last_refresh = last_ctx.at

CacheUntouched ==
    /\ context_cache = last_ctx.cache
    /\ last_refresh = last_ctx.last_refresh

\* C20 as stated: a read of the cache performs the refresh whenever
\* auto-refresh is enabled or the cache duration has elapsed since
\* last_refresh, and leaves the cache and last_refresh unchanged otherwise.
C20_DueRefreshPerformed ==
    CacheRead => IF Due THEN RefreshPerformed ELSE CacheUntouched

\* C20 as amended: a read of the cache performs the refresh whenever the
\* context is switched on, a project root was found, and auto-refresh is
\* enabled or more than the cache duration has elapsed since last_refresh;
\* otherwise it leaves the cache and last_refresh unchanged.
C20_DueRefreshWhenEnabled ==
    CacheRead =>
        IF include_context /\ ~project_root.none /\ Due
        THEN RefreshPerformed
        ELSE CacheUntouched

\* a read has refreshed a cache, built before, only because its duration had
\* elapsed
C20_Witness ==
    /\ CacheRead
    /\ include_context
    /\ ~project_root.none
    /\ ~auto_refresh_context
    /\ last_ctx.last_refresh > 0
    /\ DueByTime
    /\ last_refresh = last_ctx.at

\* the directories above a file, as paths from the project root
AncestorsOf(item) == {SubSeq(item, 1, k) : k \in 1..(Len(item) - 1)}

\* the path of the file or directory matches an exclude pattern
ExcludedPath(item) ==
    \E pattern \in exclude_patterns :
        \/ fnmatch(PathString(project_root.parts \o item), pattern)
        \/ Contains(PathString(project_root.parts \o item), pattern)

\* a cache entry stands for the file at item
IsEntry(item) == RelString(item) \in DOMAIN context_cache

\* C32: after a refresh no entry of the cache is a file more than
\* context_depth directories below the project root, none is under a
\* directory that cannot be listed, and every file at most context_depth
\* directories down that has an allowed extension, passes the text test, is
\* not excluded and has only readable, not excluded directories above it is
\* an entry.
C32_DepthAndReadable ==
    Refreshed =>
        \A item \in DOMAIN tree :
            /\ IsEntry(item) =>
                  /\ Len(item) - 1 <= context_depth
                  /\ AncestorsOf(item) \cap Unreadable = {}
            /\ ( /\ tree[item].present
                  /\ ~project_root.none
                  /\ Len(item) - 1 <= context_depth
                  /\ lower(suffix(item[Len(item)])) \in context_file_types
                  /\ is_text_file(tree[item], item[Len(item)])
                  /\ ~ExcludedPath(item)
                  /\ \A dir \in AncestorsOf(item) :
                        dir \notin Unreadable /\ ~ExcludedPath(dir) )
                => IsEntry(item)

\* a refresh went past the directory it could not list and past the one too
\* deep, and took the files beside them
C32_Witness ==
    /\ Refreshed
    /\ tree[<< <<"u">>, B_py >>].present
    /\ ~IsEntry(<< <<"u">>, B_py >>)
    /\ tree[<< <<"d">>, <<"e">>, C_PY >>].present
    /\ ~IsEntry(<< <<"d">>, <<"e">>, C_PY >>)
    /\ IsEntry(<< <<"d">>, B_py >>)
    /\ IsEntry(<<A_py>>)

(***************************************************************************)
(* SpecRank: _get_key_files (codebase_context.py 218-243) applied to       *)
(* bounded lists of cache entries.  An entry is its name, its size in      *)
(* bytes and its modification time; times are whole seconds, so that       *)
(* int(time.time() - modified) is the difference itself.                   *)
(***************************************************************************)
MaxFiles == 3       \* entries of the cache handed to _get_key_files

Day == 86400
\* time.time() at the ranking
RankNow == 1000 * Day

\* 'readme' in name.lower(), on the names of the model
ReadmeNames == {"README.md"}
\* the list of entry points (227)
EntryPointNames == {"main.py", "app.py", "index.js", "package.json", "requirements.txt"}

RankNames == {"README.md", "main.py", "util.py", "lib.py"}
RankSizes == {0, 20000}
\* modified 400 days ago, or dated 400 days ahead of the clock
RankModified == {RankNow - 400 * Day, RankNow + 400 * Day}

RankEntries ==
    [name : RankNames, size : RankSizes, modified : RankModified]

Min(a, b) == IF a <= b THEN a ELSE b

\* min(file_info.size // 100, 100)
SizeTerm(f) == Min(f.size \div 100, 100)
\* min(int(time.time() - file_info.modified) // 86400, 50)
RecencyTerm(f, t) == Min((t - f.modified) \div Day, 50)

file_importance(f, t) ==
    (IF f.name \in ReadmeNames THEN 1000 ELSE 0)
    + (IF f.name \in EntryPointNames THEN 500 ELSE 0)
    + SizeTerm(f)
    + RecencyTerm(f, t)

\* files.sort(key=file_importance, reverse=True): a stable sort, the
\* entries of equal importance stay in the order they had
RECURSIVE SortByImportance(_, _)
SortByImportance(fs, t) ==
    IF fs = <<>> THEN <<>>
    ELSE LET front == SortByImportance(SubSeq(fs, 1, Len(fs) - 1), t)
             x == fs[Len(fs)]
             n == Cardinality({i \in 1..Len(front) :
                                 file_importance(front[i], t) >= file_importance(x, t)})
         IN  SubSeq(front, 1, n) \o <<x>> \o SubSeq(front, n + 1, Len(front))

_get_key_files(fs, t) == [made |-> TRUE, files |-> SortByImportance(fs, t)]

InitRank ==
    /\ cache_values \in SeqsUpTo(RankEntries, MaxFiles)
    /\ rank_time = RankNow
    /\ key_files = NotRanked
    /\ IdlePath
    /\ IdleFs
    /\ IdleEditor
    /\ IdleContext
    /\ InitStore
    /\ InitTurn
    /\ response = <<>>
    /\ parsed = NotParsed
    /\ IdleSplit

GetKeyFiles ==
    /\ ~key_files.made
    /\ key_files' = _get_key_files(cache_values, rank_time)
    /\ UNCHANGED <<cache_values, rank_time, parseVars, storeVars, turnVars, pathVars,
                   fsVars, editorVars, ctxVars>>

NextRank == GetKeyFiles

SpecRank == InitRank /\ [][NextRank]_vars

\* the place of each ranked entry in the list handed in: with equal entries
\* told apart, the k-th occurrence of an entry in the ranking is its k-th
\* occurrence in the cache
Precedes(i, j) == i < j

IsReadme(f) == f.name \in ReadmeNames
IsEntryPoint(f) == f.name \in EntryPointNames

\* the entries of equal importance appear in the ranking in the order they
\* have in the cache
TiesKeepOrder ==
    \A imp \in {file_importance(f, rank_time) : f \in RankEntries} :
        SelectSeq(key_files.files, LAMBDA f : file_importance(f, rank_time) = imp)
            = SelectSeq(cache_values, LAMBDA f : file_importance(f, rank_time) = imp)

\* every README precedes every other file, every entry point precedes every
\* file that is neither
ClassesInOrder ==
    \A i \in 1..Len(key_files.files), j \in 1..Len(key_files.files) :
        LET f == key_files.files[i]
            g == key_files.files[j]
        IN  /\ (IsReadme(f) /\ ~IsReadme(g)) => Precedes(i, j)
            /\ (IsEntryPoint(f) /\ ~IsEntryPoint(g) /\ ~IsReadme(g)) => Precedes(i, j)

\* the two derived terms are within their caps and not negative
TermsWithinCaps ==
    \A i \in 1..Len(cache_values) :
        /\ SizeTerm(cache_values[i]) \in 0..100
        /\ RecencyTerm(cache_values[i], rank_time) \in 0..50

\* C33: in the list _get_key_files returns every README file precedes every
\* file that is not one, every entry-point file precedes every file that is
\* neither, the size term of each file is between 0 and 100 and its recency
\* term between 0 and 50, and files of equal importance keep the order of
\* the cache.
C33_KeyFileRanking ==
    key_files.made =>
        /\ ClassesInOrder
        /\ TermsWithinCaps
        /\ TiesKeepOrder

\* no entry of the cache is dated ahead of the clock
NoneFromTheFuture ==
    \A i \in 1..Len(cache_values) : cache_values[i].modified <= rank_time

\* what holds of the ranking: ties keep the order of the cache in every
\* case, and with no entry dated ahead of the clock the classes are in
\* order and the terms within their caps
RankingWhenNoneFromTheFuture ==
    key_files.made =>
        /\ TiesKeepOrder
        /\ Len(key_files.files) = Len(cache_values)
        /\ NoneFromTheFuture => (ClassesInOrder /\ TermsWithinCaps)

\* the ordering of the classes alone, apart from the bounds of the terms
ClassesInOrderAlone == key_files.made => ClassesInOrder

(***************************************************************************)
(* The request of a model call (chat.py 83-93, 118-139), under Spec.       *)
(***************************************************************************)
\* the request built by the step: a new model call started
RequestBuilt == request_data' # request_data /\ request_data' # NoRequest

\* the message of the call the request was built for: the last entry
CurrentMessage(request) == request.messages[Len(request.messages)]

\* the history entries of a request: what lies between the system prompt and
\* the last entry
RequestHistory(request) == SubSeq(request.messages, 2, Len(request.messages) - 1)

\* C34: every request sent to the model starts with the system prompt,
\* carries after it at most the ten most recent history entries, and holds
\* the current user message once only, as its last element: the entries
\* between the prompt and the message are the end of the history as it was
\* when the message arrived, so the message of the call is not among them.
C34_RequestShape ==
    [][RequestBuilt =>
        LET request == request_data'
            earlier == RequestHistory(request)
        IN  /\ Len(request.messages) >= 2
            /\ request.messages[1] = SystemPrompt
            /\ Len(earlier) <= HistoryWindow
            /\ CurrentMessage(request).role = "user"
            /\ Len(earlier) <= Len(conversation_history)
            /\ earlier = Last(conversation_history, Len(earlier))]_vars

\* what holds of every request: the history already holds the message when
\* the request is built, so the request is the system prompt, the last ten
\* entries of the history, the message among them, and the message again
C34_RequestAsBuilt ==
    [][RequestBuilt =>
        LET request == request_data'
            earlier == RequestHistory(request)
        IN  /\ request.messages[1] = SystemPrompt
            /\ Len(earlier) <= HistoryWindow
            /\ earlier = Last(conversation_history', HistoryWindow)
            /\ Len(conversation_history') = Len(conversation_history) + 1
            /\ CurrentMessage(request) = conversation_history'[Len(conversation_history')]
            /\ earlier[Len(earlier)] = CurrentMessage(request)]_vars

(***************************************************************************)
(* What a turn stores in the session (core.py 195-246, chat_manager.py     *)
(* 168-181), under Spec.                                                   *)
(***************************************************************************)
SessionMessages == IF current_chat = None THEN <<>> ELSE current_chat.messages

WithRole(messages, role) == {i \in 1..Len(messages) : messages[i].role = role}

\* the last message of the session is the first response of the turn
EndsWithFirstResponse ==
    LET last == SessionMessages[Len(SessionMessages)]
    IN  /\ last.role = "assistant"
        /\ last.content = ai_response.text
        /\ last.tokens_used = ai_response.tokens

\* the follow-up exchange is in the conversation history: the prompt, then
\* the response
FollowupInHistory ==
    LET n == Len(conversation_history)
    IN  /\ n >= 4
        /\ conversation_history[n] = Entry("assistant", followup_response.text)
        /\ conversation_history[n - 1].role = "user"
        /\ conversation_history[n - 2] = Entry("assistant", ai_response.text)

\* C35: each turn appends one user message to the session and, only if its
\* first model call succeeded, one assistant message directly after it; the
\* follow-up prompt and response are never appended to the session and the
\* follow-up tokens are not in the session's total_tokens, while both are in
\* the conversation history and the follow-up tokens are in the running
\* token total of the CLI.
C35_SessionPerTurn ==
    /\ Cardinality(WithRole(SessionMessages, "user")) = turns
    /\ \A i \in WithRole(SessionMessages, "assistant") :
           i > 1 /\ SessionMessages[i - 1].role = "user"
    /\ turns > 0 =>
          /\ IF ai_response.returned
             THEN EndsWithFirstResponse
             ELSE SessionMessages[Len(SessionMessages)].role = "user"
          /\ current_chat.total_tokens = SumTokens(SessionMessages)
          /\ turn.counted = ai_response.tokens + followup_response.tokens
    /\ followup_response.returned => FollowupInHistory

\* a turn whose two model calls both reported tokens is over
C35_Witness ==
    /\ pc = "Idle"
    /\ ai_response.returned
    /\ ai_response.tokens > 0
    /\ followup_response.returned
    /\ followup_response.tokens > 0
    /\ Len(SessionMessages) = 2
    /\ current_chat.total_tokens = ai_response.tokens
    /\ turn.counted > current_chat.total_tokens

(***************************************************************************)
(* The ids of the sessions (chat_manager.py 39-56, 58-90), under SpecStore.*)
(***************************************************************************)
\* the step is a create_new_chat that put a new session in place: no other
\* operation leaves an empty session created and modified at the present
\* second that was not there before
SessionCreated ==
    /\ current_chat' # current_chat
    /\ ~last_load'.made
    /\ \E title \in TitleInputs : current_chat' = create_new_chat(title, clock)

IsPrefix(s, t) == Len(s) <= Len(t) /\ s = SubSeq(t, 1, Len(s))

\* the record is one of the session that chat_data was written from at an
\* earlier or the same moment: a session keeps its title and its creation
\* time and its messages are only ever added to
SameSessionLater(record, chat_data) ==
    /\ record["title"] = chat_data["title"]
    /\ record["created_at"] = chat_data["created_at"]
    /\ IsPrefix(record["messages"], chat_data["messages"])

\* C36: two sessions created by separate calls of create_new_chat have
\* different ids -- the id of a new session is neither the id of the session
\* it replaces nor the id of a persisted record -- and saving a session never
\* overwrites the record of another: a record that is replaced is replaced
\* by a later state of the same session.
C36_DistinctIds ==
    [][/\ SessionCreated =>
            /\ current_chat # None => current_chat'.id # current_chat.id
            /\ ~Has(chats_dir, current_chat'.id)
       /\ \A id \in (DOMAIN chats_dir) \cap (DOMAIN chats_dir') :
            (ChatKeys \subseteq DOMAIN chats_dir[id]
                /\ ChatKeys \subseteq DOMAIN chats_dir'[id])
                => SameSessionLater(chats_dir[id], chats_dir'[id])]_vars

\* what holds of the ids: a new session differs in its id from every
\* session created in an earlier second
C36_DistinctAcrossSeconds ==
    [][SessionCreated =>
            /\ (current_chat # None /\ current_chat.created_at < clock)
                    => current_chat'.id # current_chat.id
            /\ \A id \in DOMAIN chats_dir :
                    (ChatKeys \subseteq DOMAIN chats_dir[id]
                        /\ chats_dir[id]["created_at"] < clock)
                        => id # current_chat'.id]_vars

(***************************************************************************)
(* load_chat on a record that cannot be loaded (chat_manager.py 92-127),   *)
(* under SpecStore.                                                        *)
(***************************************************************************)
\* the step is a load_chat
LoadStep == last_load'.made /\ ops' = ops + 1

\* the id has no record
NoRecord(chat_id) == ~Has(chats_dir, chat_id)

\* the record of the id is corrupt: its file does not hold a JSON object
CorruptRecord(chat_id) == Has(chats_dir, chat_id) /\ IsDamaged(chats_dir[chat_id])

\* the record of the id is a JSON object without one of the required fields
IncompleteRecord(chat_id) ==
    /\ Has(chats_dir, chat_id)
    /\ ~IsDamaged(chats_dir[chat_id])
    /\ ~(ChatKeys \subseteq DOMAIN chats_dir[chat_id])

Unloadable(chat_id) ==
    NoRecord(chat_id) \/ CorruptRecord(chat_id) \/ IncompleteRecord(chat_id)

\* C38: load_chat with an id that has no record, or whose record is corrupt
\* or lacks a required field, returns no session -- it returns None and
\* does not raise -- and leaves the current session as it was.
C38_UnloadableReturnsNone ==
    [][(LoadStep /\ Unloadable(last_load'.id)) =>
            /\ ~last_load'.raised
            /\ last_load'.result = None
            /\ current_chat' = current_chat]_vars

\* what holds of such a load: no session is made and the current session
\* stays; load_chat returns None unless the record is one it cannot read as
\* text or one that is JSON but no object, and then it raises
C38_UnloadableKeepsCurrent ==
    [][(LoadStep /\ Unloadable(last_load'.id)) =>
            /\ last_load'.result = None
            /\ current_chat' = current_chat
            /\ last_load'.raised
                  <=> /\ CorruptRecord(last_load'.id)
                      /\ chats_dir[last_load'.id]["damaged"] \in {"not_utf8", "not_object"}]_vars

(***************************************************************************)
(* SpecSession: the chat loop with the session commands of /chats          *)
(* (core.py 485-623) given between turns.                                  *)
(***************************************************************************)
MaxCommands == 3    \* session commands in a behaviour

CommandDue ==
    /\ pc = "Idle"
    /\ running
    /\ ops < MaxCommands

\* /chats new (core.py 535-544): the title is left to be generated
NewChatCommand ==
    /\ CommandDue
    /\ CreateNewChat(NoTitle)

\* /chats save (core.py 567-574)
SaveChatCommand ==
    /\ CommandDue
    /\ current_chat # None
    /\ SaveChat

\* /chats delete <id>, confirmed (core.py 606-623)
DeleteChatCommand(chat_id) ==
    /\ CommandDue
    /\ DeleteChat(chat_id)

\* the conversation history _load_chat makes of a session (560-563)
HistoryOf(chat) ==
    [i \in 1..Len(chat.messages) |-> Entry(chat.messages[i].role, chat.messages[i].content)]

\* /chats load <id> (core.py 546-565): when load_chat returns a session the
\* conversation history is replaced by its messages
LoadChatCommand(chat_id) ==
    /\ CommandDue
    /\ LET loaded == IF Has(chats_dir, chat_id)
                     THEN load_chat(chats_dir[chat_id])
                     ELSE [raised |-> FALSE, chat |-> None]
       IN  /\ current_chat' = IF loaded.chat = None THEN current_chat ELSE loaded.chat
           /\ conversation_history' = IF loaded.chat = None THEN conversation_history
                                      ELSE HistoryOf(loaded.chat)
           /\ last_load' = [id |-> chat_id, result |-> loaded.chat, made |-> TRUE,
                            raised |-> loaded.raised]
    /\ last_delete' = NoDelete
    /\ ops' = ops + 1
    /\ UNCHANGED <<chats_dir, clock, saved>>
    /\ UNCHANGED <<running, auto_run_mode, pc, pass, callVars, ai_response,
                   followup_response, tools_to_execute, followup_tools, tool_index,
                   executed_tools, turn, turns>>
    /\ UNCHANGED <<parseVars, moreVars>>

NextSession ==
    \/ Next
    \/ NewChatCommand
    \/ SaveChatCommand
    \/ \E chat_id \in ChatIds : LoadChatCommand(chat_id)
    \/ \E chat_id \in ChatIds : DeleteChatCommand(chat_id)

SpecSession == Init /\ [][NextSession]_vars

\* the step is a session command
CommandStep == ops' = ops + 1

\* the command deleted the current session
CurrentDeleted == CommandStep /\ current_chat # None /\ current_chat' = None

\* the command loaded a session
SessionLoaded == CommandStep /\ last_load'.made /\ last_load'.result # None

\* C37: after a session command the conversation history the next request
\* is built from holds only messages of the active session: after a new
\* session is created or the current one is deleted it holds nothing of the
\* session before, and after a load it holds the messages of the session
\* loaded.
C37_HistoryOfActiveSession ==
    [][/\ (CommandStep /\ SessionCreated) => conversation_history' = <<>>
       /\ CurrentDeleted => conversation_history' = <<>>
       /\ SessionLoaded => conversation_history' = HistoryOf(current_chat')]_vars

\* what holds: a load replaces the history by the messages of the session
\* loaded, and the other commands leave the history as it is
C37_OnlyLoadResets ==
    [][CommandStep =>
         IF SessionLoaded
         THEN conversation_history' = HistoryOf(current_chat')
         ELSE conversation_history' = conversation_history]_vars

(***************************************************************************)
(* The working directory across run_command (tools.py 316-357), under Spec.*)
(***************************************************************************)
\* the step is the return of an invocation
ToolReturned == turn'.tool_calls = turn.tool_calls + 1

\* C39: run_command leaves the working directory of the process as it was:
\* after an invocation has returned, by success, by a non-zero exit, by a
\* timeout or by another error, the working directory is the one in effect
\* before the call.
C39_WorkingDirectoryKept ==
    [][ToolReturned => turn'.cwd = turn.cwd]_vars

\* what holds: the working directory changes only when a run_command with a
\* directory argument times out or raises, and then to that directory
C39_ChangedOnlyOnFailure ==
    [][(ToolReturned /\ turn'.cwd # turn.cwd) =>
          LET tools == IF pass = 1 THEN tools_to_execute ELSE followup_tools
              tool == tools[tool_index]
          IN  /\ Get(tool, "name", None) = T("run_command")
              /\ turn'.cwd = Get(Get(tool, "args", EmptyDict), "directory", <<".">>)
              /\ \/ turn'.signals = TimeoutSignals
                 \/ pass = 2
                 \/ executed_tools'[Len(executed_tools')]["result"].text = "Error executing"]_vars

====
